---- MODULE Spec2Model ----
(***************************************************************************)
(* Session orchestrator and ingestion pipeline of the WhatsApp archive     *)
(* backend (src/services/whatsappService.js and the models it calls).      *)
(*                                                                         *)
(* One user is modelled: every registry of the service is keyed by user id *)
(* and no operation touches the entry of another user.  The Node.js event  *)
(* loop is modelled as follows: the code between two awaits is one atomic  *)
(* action; a continuation that waits only for an already settled promise   *)
(* is a microtask and runs before any other event, timer or I/O completion *)
(* (guard NoMicrotask on those actions).                                   *)
(*                                                                         *)
(* The external chat client (whatsapp-web.js) is not part of the           *)
(* repository.  It is modelled by its lifecycle events: qr* ->             *)
(* authenticated -> ready, auth_failure before ready, disconnected at any  *)
(* time; it sets client.info when it becomes ready and never clears it; it *)
(* emits nothing once destroy() has been called on it.  A durable write    *)
(* either takes effect or not, and its call either returns or throws.      *)
(***************************************************************************)
EXTENDS Integers, FiniteSets, Sequences, TLC

\* ---------------------------------------------------------------- bounds
\* SpecRace: overlapping calls on the registries, after a restart
RaceCallers == 2      \* initializeClient / checkExistingSession calls
RaceDisconnects == 1  \* disconnectClient calls
RaceEvents == 3       \* lifecycle events emitted by the clients
RaceFaults == 1       \* failures of a collaborator (durable store, QR renderer, destroy)
\* SpecDedup: initializeClient calls only
DedupCallers == 3
DedupEvents == 2
\* SpecLife: the lifecycle of one client with all its handlers
MaxRetries == 5       \* the largest argument of connectWithRetry; 5 is its default
NumUsers == 2         \* users holding a token
NumSockets == 2       \* Socket.IO connections
MaxEmits == 2         \* events emitted to user rooms
StatusCalls == 2      \* getClientStatus calls
StatusEvents == 3
StatusFaults == 1
FreshCallers == 1
FreshDisconnects == 1
FreshEvents == 5
LifeCallers == 1
LifeDisconnects == 2
LifeEvents == 4
LifeFaults == 2
\* SpecTimed: one initializeClient call against the clock
MaxTime == 52
\* SpecSettle, SpecHang: calls that overlap a teardown
TeardownCallers == 2
TeardownDisconnects == 2  \* disconnectClient calls, the one of deleteSession included
TeardownFaults == 1
\* SpecGuard: fetchAndSaveMessages calls around the end of a connection
GuardEvents == 3
GuardFaults == 2
\* SpecNotify: 'message' events of a ready client
NotifyMessages == 2   \* 'message' events
NotifyFaults == 2
MaxBody == 102        \* units of the longest message body
\* SpecPause: fetchAndSaveMessages over an account with many conversations
PauseChats == 11
PauseFaults == 1
\* SpecIngest: fetchAndSaveMessages runs over a fixed external account
IngestRuns == 2       \* fetchAndSaveMessages calls, one after the other
IngestFaults == 2
NumChats == 3         \* conversations returned by client.getChats()
\* batchSize of Message.bulkCreate; 100 in the source, scaled so that a
\* conversation of three messages takes two batches
BatchSize == 2

\* ------------------------------------------------------ program constants
InitTimeout == 50
BgTimeout == 10
\* formatMessage: a numeric timestamp below this is in seconds; 1e12 in the
\* source, scaled by 1e9 together with the timestamps of ExtMsg
TsThreshold == 1000
\* the cap of the notification preview (line 351)
PreviewCap == 100
\* fetchAndSaveMessages pauses when its loop index is a multiple of this (line 589)
PauseEvery == 5

Max(a, b) == IF a > b THEN a ELSE b
\* no Chat.updateLastMessageTime yet; -1 is NULL
NoTime == [timestamp |-> 0 - 1, last_message_time |-> 0 - 1]

\* Chat.updateLastMessageTime called with the timestamp of the message m as the
\* library delivers it: UPDATE chats SET last_message_time =
\* FROM_UNIXTIME(Math.floor(timestamp / 1000)).  The field timestamp keeps the
\* argument of the call; an argument that is not a number is -2 and leaves NULL.
UpdateLastMessageTime(m) ==
    IF m.num THEN [timestamp |-> m.ts, last_message_time |-> m.ts \div 1000]
    ELSE [timestamp |-> 0 - 2, last_message_time |-> 0 - 1]

\* conversations of the largest account
MaxChats == Max(NumChats, PauseChats)
MaxCallers == Max(Max(Max(RaceCallers, DedupCallers), LifeCallers), TeardownCallers)
Callers == 1..MaxCallers
\* every call constructs at most one Client
Handles == 1..MaxCallers
NoHandle == 0

VARIABLES
    clients,                 \* this.clients.get(userId): handle id or NoHandle
    qrCodes,                 \* this.qrCodes.has(userId)
    initializationPromises,  \* this.initializationPromises.get(userId): promise id or NoHandle
    created,                 \* number of Client objects constructed so far
    client,                  \* per Client object: lifecycle, info, destroy() calls, connect commands
    prom,                    \* per _performInitialization run: its promise
    call,                    \* initializeClient / checkExistingSession calls
    disc,                    \* the disconnectClient call
    session,                 \* the whatsapp_sessions row of the user
    hdl,                     \* per Client object: progress of its event handlers
    pushed,                  \* per Client object: events emitted to room user_<id>
    faults,                  \* collaborator failures so far
    events,                  \* lifecycle events emitted by the clients so far
    lim,                     \* the bounds of the specification being checked
    now,                     \* clock, in time-units of 1000 ms
    started,                 \* per _performInitialization run: time its timer was armed
    ext,                     \* the external account: message ids of each conversation
    messages,                \* the messages table of the user
    chats,                   \* the chats table of the user: conversations with a row
    lastMessageTime,         \* per conversation: the latest Chat.updateLastMessageTime
    stat,                    \* the getClientStatus call being followed
    sockets,                 \* per Socket.IO socket: userId, rooms joined, events received
    emitted,                 \* number of events emitted to user rooms
    retry,                   \* the connectWithRetry call being followed
    ingest,                  \* the fetchAndSaveMessages call
    del,                     \* the deleteSession request
    msg,                     \* the handler of the latest 'message' event
    runs                     \* what each finished fetchAndSaveMessages call returned,
                             \* with the messages table at that moment

vars == <<clients, qrCodes, initializationPromises, created, client, prom, call, disc,
          session, hdl, pushed, faults, events, lim, now, started,
          ext, messages, chats, lastMessageTime, stat, sockets, emitted, retry, ingest, del,
          msg, runs>>

\* a collaborator fails
Fault == faults < lim.faults /\ faults' = faults + 1

\* ------------------------------------------------------------ persistence
NoRow == [exists |-> FALSE, active |-> FALSE, data |-> FALSE, phone |-> FALSE]

\* WhatsAppSession.create: INSERT ... ON DUPLICATE KEY UPDATE with null data and phone
CreateRow(s) ==
    IF s.exists THEN s
    ELSE [exists |-> TRUE, active |-> FALSE, data |-> FALSE, phone |-> FALSE]

\* WhatsAppSession.setActive: UPDATE ... SET is_active = ? WHERE user_id = ?
SetActiveRow(s, b) == IF s.exists THEN [s EXCEPT !.active = b] ELSE s

\* WhatsAppSession.updateSessionData: UPDATE ... SET session_data = ?
UpdateSessionDataRow(s) == IF s.exists THEN [s EXCEPT !.data = TRUE] ELSE s

\* WhatsAppSession.updatePhoneNumber: UPDATE ... SET phone_number = ?
UpdatePhoneNumberRow(s) == IF s.exists THEN [s EXCEPT !.phone = TRUE] ELSE s

\* ------------------------------------------------------------------ state
NoClient == [lib |-> "none", info |-> FALSE, destroyed |-> FALSE, connects |-> 0]
NoProm == [st |-> "none", val |-> "none"]
IdleCall == [pc |-> "idle", kind |-> "init", p |-> NoHandle, own |-> FALSE, res |-> "none"]
IdleDisc == [pc |-> "idle", res |-> "none", n |-> 0, had |-> FALSE]
NoHdl == [qr |-> "none", af |-> "none", dh |-> "none",
          bg |-> "none", op |-> <<"none", "none", "none">>]

IdleDel == [pc |-> "idle", res |-> "none"]
\* the notification a 'message' handler prepares: preview and sender.profilePicUrl
NoNote == [preview |-> <<>>, pic |-> "none"]
IdleMsg == [pc |-> "idle", h |-> NoHandle, n |-> 0, fromMe |-> FALSE, body |-> <<>>,
            num |-> FALSE, ts |-> 0, handed |-> FALSE, note |-> NoNote, sent |-> FALSE]
IdleIngest == [pc |-> "idle", run |-> 0, i |-> 0, b |-> 0, j |-> 0, msgs |-> <<>>,
               results |-> <<>>, totalMessages |-> 0, totalChatsProcessed |-> 0,
               bulkResults |-> <<>>]

Chats == 1..NumChats
\* no connectWithRetry call so far: i is the loop index, attempts the
\* getConnection calls made, held whether `connection` is set, acquired and
\* released the pool connections obtained and given back, succeeded the attempts
\* whose SELECT NOW() returned
IdleRetry == [pc |-> "idle", retries |-> 0, i |-> 0, attempts |-> 0, held |-> FALSE,
              acquired |-> 0, released |-> 0, succeeded |-> 0, res |-> "none"]

\* users holding a token, and Socket.IO connections
Users == 1..NumUsers
Sockets == 1..NumSockets

\* a socket before its handshake; userId 0 is no user
NoSocket == [userId |-> 0, rooms |-> {}, received |-> {}]

\* no status read so far; res is what getClientStatus returned
NoStatus == [connected |-> FALSE, hasSession |-> FALSE, isActive |-> FALSE,
             phoneNumber |-> FALSE]
IdleStat == [pc |-> "idle", n |-> 0, h |-> NoHandle, read |-> FALSE, res |-> NoStatus]

\* an account without conversations
NoChats == [c \in Chats |-> <<>>]

\* the row a completed earlier session leaves behind
OldRow(a) == [exists |-> TRUE, active |-> a, data |-> TRUE, phone |-> TRUE]

\* the service after construction (lines 8-12); the durable row survives restarts
InitService ==
    /\ clients = NoHandle
    /\ qrCodes = FALSE
    /\ initializationPromises = NoHandle
    /\ created = 0
    /\ client = [h \in Handles |-> NoClient]
    /\ prom = [h \in Handles |-> NoProm]
    /\ call = [i \in Callers |-> IdleCall]
    /\ disc = IdleDisc
    /\ session \in {NoRow, OldRow(TRUE), OldRow(FALSE)}
    /\ hdl = [h \in Handles |-> NoHdl]
    /\ pushed = [h \in Handles |-> {}]
    /\ faults = 0
    /\ events = 0
    /\ now = 0
    /\ started = [h \in Handles |-> 0]
    /\ messages = {}
    /\ chats = {}
    /\ lastMessageTime = [c \in 1..MaxChats |-> NoTime]
    /\ stat = IdleStat
    /\ sockets = [s \in Sockets |-> NoSocket]
    /\ emitted = 0
    /\ retry = IdleRetry
    /\ ingest = IdleIngest
    /\ del = IdleDel
    /\ msg = IdleMsg
    /\ runs = <<>>

Limits(c, d, e, f, q, t) ==
    [callers |-> c, disconnects |-> d, events |-> e, faults |-> f, qr |-> q, timed |-> t]

InitRace ==
    /\ InitService
    /\ ext = NoChats
    /\ lim = Limits(RaceCallers, RaceDisconnects, RaceEvents, RaceFaults, FALSE, FALSE)

InitDedup ==
    /\ InitService
    /\ ext = NoChats
    /\ lim = Limits(DedupCallers, 0, DedupEvents, 0, FALSE, FALSE)

InitLife ==
    /\ InitService
    /\ ext = NoChats
    /\ lim = Limits(LifeCallers, LifeDisconnects, LifeEvents, LifeFaults, TRUE, FALSE)

InitTimed ==
    /\ InitService
    /\ ext = NoChats
    /\ lim = Limits(1, 0, 0, 0, FALSE, TRUE)

InitTeardown ==
    /\ InitService
    /\ ext = NoChats
    /\ lim = Limits(TeardownCallers, TeardownDisconnects, 0, TeardownFaults, FALSE, FALSE)

\* isClientReady(userId): client && client.info
isClientReady == clients # NoHandle /\ client[clients].info

Settled(h) == prom[h].st = "settled"
Rejected(h) == prom[h].st = "settled" /\ prom[h].val \in {"timeout", "connect_failed"}

\* a continuation whose awaited promise is already settled is a microtask
NoMicrotask ==
    /\ \A i \in Callers : call[i].pc = "await" => ~Settled(call[i].p)
    /\ \A h \in Handles : hdl[h].bg = "running" => \E k \in 1..3 : hdl[h].op[k] = "upd"
    /\ ~(del.pc = "disconnect" /\ disc.pc = "done")

\* ------------------------------------------------------- initializeClient
\* what the caller does with the result r of initializeClient
Returned(i, kind, r) ==
    IF kind = "init" THEN [call[i] EXCEPT !.pc = "done", !.kind = kind, !.res = r]
    ELSE IF r \in {"connected", "already_connected"}
         THEN [call[i] EXCEPT !.pc = "chkPause", !.kind = kind, !.res = r]
         ELSE [call[i] EXCEPT !.pc = "chkUpd", !.kind = kind, !.res = r]

\* _performInitialization up to its await: new Client, setupClientEvents,
\* clients.set, arm the timer, client.initialize(); then lines 43-47
PerformInitialization(i, kind) ==
    /\ LET h == created + 1 IN
        /\ created' = h
        /\ client' = [client EXCEPT ![h] = [lib |-> "init", info |-> FALSE, destroyed |-> FALSE,
                                            connects |-> 1]]
        /\ clients' = h
        /\ prom' = [prom EXCEPT ![h] = [st |-> "pending", val |-> "none"]]
        /\ started' = [started EXCEPT ![h] = now]
        /\ initializationPromises' = h
        /\ call' = [call EXCEPT ![i] = [pc |-> "await", kind |-> kind, p |-> h,
                                        own |-> TRUE, res |-> "none"]]

\* InitializeBody without the existingClient.info test of line 27
InitializeBody_NoInfoTest(i, kind, reg) ==
    IF initializationPromises # NoHandle
    THEN /\ call' = [call EXCEPT ![i] = [pc |-> "await", kind |-> kind,
                                         p |-> initializationPromises,
                                         own |-> FALSE, res |-> "none"]]
         /\ clients' = reg
         /\ UNCHANGED <<initializationPromises, created, client, prom, started>>
    ELSE IF reg # NoHandle
    THEN /\ client' = [client EXCEPT ![reg].destroyed = TRUE]
         /\ call' = [call EXCEPT ![i] = [pc |-> "destroyOld", kind |-> kind, p |-> NoHandle,
                                         own |-> FALSE, res |-> "none"]]
         /\ clients' = reg
         /\ UNCHANGED <<initializationPromises, created, prom, started>>
    ELSE PerformInitialization(i, kind)

\* initializeClient from its entry to its first await or return; reg is the
\* value of clients.get(userId) at entry
InitializeBody(i, kind, reg) ==
    IF initializationPromises # NoHandle
    THEN /\ call' = [call EXCEPT ![i] = [pc |-> "await", kind |-> kind,
                                         p |-> initializationPromises,
                                         own |-> FALSE, res |-> "none"]]
         /\ clients' = reg
         /\ UNCHANGED <<initializationPromises, created, client, prom, started>>
    ELSE IF reg # NoHandle /\ client[reg].info
    THEN /\ call' = [call EXCEPT ![i] = Returned(i, kind, "already_connected")]
         /\ clients' = reg
         /\ UNCHANGED <<initializationPromises, created, client, prom, started>>
    ELSE IF reg # NoHandle
    THEN /\ client' = [client EXCEPT ![reg].destroyed = TRUE]
         /\ call' = [call EXCEPT ![i] = [pc |-> "destroyOld", kind |-> kind, p |-> NoHandle,
                                         own |-> FALSE, res |-> "none"]]
         /\ clients' = reg
         /\ UNCHANGED <<initializationPromises, created, prom, started>>
    ELSE PerformInitialization(i, kind)

\* each slot serves one call; the slots are interchangeable and used in order
Callable(i) ==
    /\ i <= lim.callers
    /\ call[i].pc = "idle"
    /\ \A j \in Callers : j < i => call[j].pc # "idle"

initializeClient(i) ==
    /\ Callable(i)
    /\ NoMicrotask
    /\ InitializeBody(i, "init", clients)
    /\ UNCHANGED <<qrCodes, disc, session, hdl, pushed, faults, events, lim, now, ext,
                   messages, chats, lastMessageTime, stat, sockets, emitted, retry, ingest,
                   del, msg, runs>>

\* existingClient.destroy() of lines 33-37 settled (resolved or threw):
\* clients.delete, then _performInitialization
DestroyOldSettled(i) ==
    /\ call[i].pc = "destroyOld"
    /\ NoMicrotask
    /\ PerformInitialization(i, call[i].kind)
    /\ \/ UNCHANGED faults
       \/ Fault
    /\ UNCHANGED <<qrCodes, disc, session, hdl, pushed, events, lim, now, ext, messages,
                   chats, lastMessageTime, stat, sockets, emitted, retry, ingest, del, msg,
                   runs>>

\* AwaitSettled without the finally block of lines 48-51: the entry is removed
\* only by the catch block, when the awaited promise rejects
AwaitSettled_NoFinally(i) ==
    /\ call[i].pc = "await"
    /\ Settled(call[i].p)
    /\ LET h == call[i].p IN
        /\ initializationPromises' =
              IF Rejected(h) THEN NoHandle ELSE initializationPromises
        /\ call' = [call EXCEPT ![i] = Returned(i, call[i].kind, prom[h].val)]
    /\ UNCHANGED <<clients, qrCodes, created, client, prom, disc, session, hdl, pushed,
                   faults, events, lim, now, started, ext, messages, chats,
                   lastMessageTime, stat, sockets, emitted, retry, ingest, del, msg, runs>>

\* lines 21 and 47-57: the awaited initialization promise has settled
AwaitSettled(i) ==
    /\ call[i].pc = "await"
    /\ Settled(call[i].p)
    /\ LET h == call[i].p IN
        /\ initializationPromises' =
              IF call[i].own \/ Rejected(h) THEN NoHandle ELSE initializationPromises
        /\ call' = [call EXCEPT ![i] = Returned(i, call[i].kind, prom[h].val)]
    /\ UNCHANGED <<clients, qrCodes, created, client, prom, disc, session, hdl, pushed,
                   faults, events, lim, now, started, ext, messages, chats,
                   lastMessageTime, stat, sockets, emitted, retry, ingest, del, msg, runs>>

\* ------------------------------------------------ _performInitialization
\* catch block of _performInitialization, entered with error e
InitFailed(h, e) ==
    IF clients # NoHandle
    THEN /\ client' = [client EXCEPT ![clients].destroyed = TRUE]
         /\ prom' = [prom EXCEPT ![h] = [st |-> "cleanup", val |-> e]]
    ELSE /\ prom' = [prom EXCEPT ![h] = [st |-> "settled", val |-> e]]
         /\ UNCHANGED client

\* InitTimeoutFires with a timer callback that rejects only while its client is
\* the registered one
InitTimeoutFires_IfRegistered(h) ==
    /\ prom[h].st = "pending"
    /\ clients = h
    /\ lim.timed => now >= started[h] + InitTimeout
    /\ NoMicrotask
    /\ InitFailed(h, "timeout")
    /\ UNCHANGED <<clients, qrCodes, initializationPromises, created, call, disc, session,
                   hdl, pushed, faults, events, lim, now, started, ext, messages, chats,
                   lastMessageTime, stat, sockets, emitted, retry, ingest, del, msg, runs>>

\* the 50000 ms timer of line 97 fires
InitTimeoutFires(h) ==
    /\ prom[h].st = "pending"
    /\ lim.timed => now >= started[h] + InitTimeout
    /\ NoMicrotask
    /\ InitFailed(h, "timeout")
    /\ UNCHANGED <<clients, qrCodes, initializationPromises, created, call, disc, session,
                   hdl, pushed, faults, events, lim, now, started, ext, messages, chats,
                   lastMessageTime, stat, sockets, emitted, retry, ingest, del, msg, runs>>

\* client.initialize() rejects before the race has settled
ConnectRejects(h) ==
    /\ prom[h].st = "pending"
    /\ NoMicrotask
    /\ InitFailed(h, "connect_failed")
    /\ UNCHANGED <<clients, qrCodes, initializationPromises, created, call, disc, session,
                   hdl, pushed, faults, events, lim, now, started, ext, messages, chats,
                   lastMessageTime, stat, sockets, emitted, retry, ingest, del, msg, runs>>

\* client.destroy() of line 129 settled (resolved or threw): clients.delete, rethrow
CleanupSettled(h) ==
    /\ prom[h].st = "cleanup"
    /\ NoMicrotask
    /\ clients' = NoHandle
    /\ prom' = [prom EXCEPT ![h].st = "settled"]
    /\ \/ UNCHANGED faults
       \/ Fault
    /\ UNCHANGED <<qrCodes, initializationPromises, created, client, call, disc, session,
                   hdl, pushed, events, lim, now, started, ext, messages, chats,
                   lastMessageTime, stat, sockets, emitted, retry, ingest, del, msg, runs>>

\* ----------------------------------------------------- setupClientEvents
\* the library emits lifecycle events of a client until destroy() is called
Emits(h) ==
    /\ client[h].lib \in {"init", "authd", "ready"}
    /\ ~client[h].destroyed
    /\ events < lim.events
    /\ events' = events + 1

Push(h, e) == [pushed EXCEPT ![h] = @ \cup {e}]

\* 'qr' event: handler runs up to await QRCode.toDataURL
QrEvent(h) ==
    /\ Emits(h) /\ client[h].lib = "init"
    /\ hdl[h].qr = "none"
    /\ lim.qr
    /\ NoMicrotask
    /\ hdl' = [hdl EXCEPT ![h].qr = "render"]
    /\ UNCHANGED <<clients, qrCodes, initializationPromises, created, client, prom, call,
                   disc, session, pushed, faults, lim, now, started, ext, messages, chats,
                   lastMessageTime, stat, sockets, emitted, retry, ingest, del, msg, runs>>

\* QRCode.toDataURL settled: qrCodes.set, emit 'qr', WhatsAppSession.create
\* issued; or it threw
QrRendered(h) ==
    /\ hdl[h].qr = "render"
    /\ NoMicrotask
    /\ \/ /\ qrCodes' = TRUE
          /\ pushed' = Push(h, "qr")
          /\ hdl' = [hdl EXCEPT ![h].qr = "create"]
          /\ UNCHANGED faults
       \/ /\ hdl' = [hdl EXCEPT ![h].qr = "none"]
          /\ Fault
          /\ UNCHANGED <<qrCodes, pushed>>
    /\ UNCHANGED <<clients, initializationPromises, created, client, prom, call, disc,
                   session, events, lim, now, started, ext, messages, chats,
                   lastMessageTime, stat, sockets, emitted, retry, ingest, del, msg, runs>>

\* WhatsAppSession.create of line 157 settled: the INSERT ran or failed; the
\* handler does nothing after it
QrCreateSettled(h) ==
    /\ hdl[h].qr = "create"
    /\ NoMicrotask
    /\ \/ session' = CreateRow(session) /\ UNCHANGED faults
       \/ UNCHANGED session /\ Fault
    /\ hdl' = [hdl EXCEPT ![h].qr = "none"]
    /\ UNCHANGED <<clients, qrCodes, initializationPromises, created, client, prom, call,
                   disc, pushed, events, lim, now, started, ext, messages, chats,
                   lastMessageTime, stat, sockets, emitted, retry, ingest, del, msg, runs>>

\* 'authenticated' event: updateSessionData of line 279 (the UPDATE runs or
\* fails, the SELECT returns or throws), then emit 'authenticated'.  Nothing
\* else reads what this handler writes, so its await is not a separate step.
AuthenticatedEvent(h) ==
    /\ Emits(h) /\ client[h].lib = "init"
    /\ NoMicrotask
    /\ client' = [client EXCEPT ![h].lib = "authd"]
    /\ \/ /\ session' = UpdateSessionDataRow(session)
          /\ pushed' = Push(h, "authenticated")
          /\ UNCHANGED faults
       \/ /\ session' = UpdateSessionDataRow(session)
          /\ Fault
          /\ UNCHANGED pushed
       \/ /\ Fault
          /\ UNCHANGED <<session, pushed>>
    /\ UNCHANGED <<clients, qrCodes, initializationPromises, created, prom, call, disc,
                   hdl, lim, now, started, ext, messages, chats, lastMessageTime, stat,
                   sockets, emitted, retry, ingest, del, msg, runs>>

\* ReadyEvent with the emit of line 172 moved behind the durable writes
ReadyEvent_PersistFirst(h) ==
    /\ Emits(h) /\ client[h].lib = "authd"
    /\ NoMicrotask
    /\ client' = [client EXCEPT ![h].lib = "ready", ![h].info = TRUE]
    /\ qrCodes' = FALSE
    /\ hdl' = [hdl EXCEPT ![h].bg = "scheduled"]
    /\ prom' = IF prom[h].st = "pending"
               THEN [prom EXCEPT ![h] = [st |-> "settled", val |-> "connected"]]
               ELSE prom
    /\ UNCHANGED <<clients, initializationPromises, created, call, disc, session, pushed,
                   faults, lim, now, started, ext, messages, chats, lastMessageTime, stat,
                   sockets, emitted, retry, ingest, del, msg, runs>>

\* 'ready' event: the on('ready') handler up to setImmediate, then the
\* once('ready') listener of _performInitialization
ReadyEvent(h) ==
    /\ Emits(h) /\ client[h].lib = "authd"
    /\ NoMicrotask
    /\ client' = [client EXCEPT ![h].lib = "ready", ![h].info = TRUE]
    /\ pushed' = Push(h, "ready")
    /\ qrCodes' = FALSE
    /\ hdl' = [hdl EXCEPT ![h].bg = "scheduled"]
    /\ prom' = IF prom[h].st = "pending"
               THEN [prom EXCEPT ![h] = [st |-> "settled", val |-> "connected"]]
               ELSE prom
    /\ UNCHANGED <<clients, initializationPromises, created, call, disc, session, faults,
                   lim, now, started, ext, messages, chats, lastMessageTime, stat, sockets,
                   emitted, retry, ingest, del, msg, runs>>

\* the setImmediate callback: the three writes are issued, the 10000 ms timer armed
BgStart(h) ==
    /\ hdl[h].bg = "scheduled"
    /\ NoMicrotask
    /\ hdl' = [hdl EXCEPT ![h].bg = "running", ![h].op = <<"upd", "upd", "upd">>]
    /\ UNCHANGED <<clients, qrCodes, initializationPromises, created, client, prom, call,
                   disc, session, pushed, faults, events, lim, now, started, ext, messages,
                   chats, lastMessageTime, stat, sockets, emitted, retry, ingest, del, msg,
                   runs>>

\* the UPDATE of background write k: 1 updateSessionData, 2 setActive(true), 3 updatePhoneNumber
BgRow(k, s) ==
    IF k = 1 THEN UpdateSessionDataRow(s)
    ELSE IF k = 2 THEN SetActiveRow(s, TRUE)
    ELSE UpdatePhoneNumberRow(s)

\* BgOpSettled with the three writes awaited one after the other in one try
\* block: the first write that throws abandons the writes still pending
BgOpSettled_Sequential(h, k) ==
    /\ hdl[h].op[k] = "upd"
    /\ NoMicrotask
    /\ \/ /\ session' = BgRow(k, session)
          /\ hdl' = [hdl EXCEPT ![h].op[k] = "ok"]
          /\ UNCHANGED faults
       \/ /\ hdl' = [hdl EXCEPT ![h].op = [j \in 1..3 |-> IF hdl[h].op[j] = "upd" THEN "err"
                                                          ELSE hdl[h].op[j]]]
          /\ Fault
          /\ UNCHANGED session
    /\ UNCHANGED <<clients, qrCodes, initializationPromises, created, client, prom, call,
                   disc, pushed, events, lim, now, started, ext, messages, chats,
                   lastMessageTime, stat, sockets, emitted, retry, ingest, del, msg, runs>>

\* background write k settled: its UPDATE ran or failed, its SELECT returned or threw
BgOpSettled(h, k) ==
    /\ hdl[h].op[k] = "upd"
    /\ NoMicrotask
    /\ \/ /\ session' = BgRow(k, session)
          /\ hdl' = [hdl EXCEPT ![h].op[k] = "ok"]
          /\ UNCHANGED faults
       \/ /\ session' = BgRow(k, session)
          /\ hdl' = [hdl EXCEPT ![h].op[k] = "err"]
          /\ Fault
       \/ /\ hdl' = [hdl EXCEPT ![h].op[k] = "err"]
          /\ Fault
          /\ UNCHANGED session
    /\ UNCHANGED <<clients, qrCodes, initializationPromises, created, client, prom, call,
                   disc, pushed, events, lim, now, started, ext, messages, chats,
                   lastMessageTime, stat, sockets, emitted, retry, ingest, del, msg, runs>>

BgSettled(h) == \A k \in 1..3 : hdl[h].op[k] \in {"ok", "err"}

\* BgFinished reporting success:false when one of the three writes failed
BgFinished_ReportsFailures(h) ==
    /\ hdl[h].bg = "running"
    /\ BgSettled(h)
    /\ hdl' = [hdl EXCEPT ![h].bg = "done"]
    /\ pushed' = Push(h, IF \E k \in 1..3 : hdl[h].op[k] = "err"
                         THEN "session_saved_false" ELSE "session_saved_true")
    /\ UNCHANGED <<clients, qrCodes, initializationPromises, created, client, prom, call,
                   disc, session, faults, events, lim, now, started, ext, messages, chats,
                   lastMessageTime, stat, sockets, emitted, retry, ingest, del, msg, runs>>

\* Promise.allSettled won the race of line 220: emit session_saved success:true
BgFinished(h) ==
    /\ hdl[h].bg = "running"
    /\ BgSettled(h)
    /\ hdl' = [hdl EXCEPT ![h].bg = "done"]
    /\ pushed' = Push(h, "session_saved_true")
    /\ UNCHANGED <<clients, qrCodes, initializationPromises, created, client, prom, call,
                   disc, session, faults, events, lim, now, started, ext, messages, chats,
                   lastMessageTime, stat, sockets, emitted, retry, ingest, del, msg, runs>>

\* the 10000 ms timer won the race: emit session_saved success:false
BgTimeoutFires(h) ==
    /\ hdl[h].bg = "running"
    /\ ~BgSettled(h)
    /\ NoMicrotask
    /\ hdl' = [hdl EXCEPT ![h].bg = "done"]
    /\ pushed' = Push(h, "session_saved_false")
    /\ UNCHANGED <<clients, qrCodes, initializationPromises, created, client, prom, call,
                   disc, session, faults, events, lim, now, started, ext, messages, chats,
                   lastMessageTime, stat, sockets, emitted, retry, ingest, del, msg, runs>>

\* 'auth_failure' event: the on() handler up to await setActive, then the once() listener
AuthFailureEvent(h) ==
    /\ Emits(h) /\ client[h].lib \in {"init", "authd"}
    /\ NoMicrotask
    /\ client' = [client EXCEPT ![h].lib = "failed"]
    /\ hdl' = [hdl EXCEPT ![h].af = "upd"]
    /\ prom' = IF prom[h].st = "pending"
               THEN [prom EXCEPT ![h] = [st |-> "settled", val |-> "auth_failed"]]
               ELSE prom
    /\ UNCHANGED <<clients, qrCodes, initializationPromises, created, call, disc, session,
                   pushed, faults, lim, now, started, ext, messages, chats,
                   lastMessageTime, stat, sockets, emitted, retry, ingest, del, msg, runs>>

\* setActive(userId, false) of line 292 settled: emit 'auth_failure' unless it threw
AuthFailureSettled(h) ==
    /\ hdl[h].af = "upd"
    /\ NoMicrotask
    /\ hdl' = [hdl EXCEPT ![h].af = "done"]
    /\ \/ /\ session' = SetActiveRow(session, FALSE)
          /\ pushed' = Push(h, "auth_failure")
          /\ UNCHANGED faults
       \/ /\ session' = SetActiveRow(session, FALSE)
          /\ Fault
          /\ UNCHANGED pushed
       \/ /\ Fault
          /\ UNCHANGED <<session, pushed>>
    /\ UNCHANGED <<clients, qrCodes, initializationPromises, created, client, prom, call,
                   disc, events, lim, now, started, ext, messages, chats, lastMessageTime,
                   stat, sockets, emitted, retry, ingest, del, msg, runs>>

\* 'disconnected' event: handler runs up to await setActive
DisconnectedEvent(h) ==
    /\ Emits(h)
    /\ NoMicrotask
    /\ client' = [client EXCEPT ![h].lib = "closed"]
    /\ hdl' = [hdl EXCEPT ![h].dh = "upd"]
    /\ UNCHANGED <<clients, qrCodes, initializationPromises, created, prom, call, disc,
                   session, pushed, faults, lim, now, started, ext, messages, chats,
                   lastMessageTime, stat, sockets, emitted, retry, ingest, del, msg, runs>>

\* the UPDATE of setActive(userId, false) of line 304 ran, or the call threw
DisconnectedUpdate(h) ==
    /\ hdl[h].dh = "upd"
    /\ NoMicrotask
    /\ \/ /\ session' = SetActiveRow(session, FALSE)
          /\ hdl' = [hdl EXCEPT ![h].dh = "sel"]
          /\ UNCHANGED faults
       \/ /\ hdl' = [hdl EXCEPT ![h].dh = "done"]
          /\ Fault
          /\ UNCHANGED session
    /\ UNCHANGED <<clients, qrCodes, initializationPromises, created, client, prom, call,
                   disc, pushed, events, lim, now, started, ext, messages, chats,
                   lastMessageTime, stat, sockets, emitted, retry, ingest, del, msg, runs>>

\* setActive returned: clients.delete, emit 'disconnected'; or it threw
DisconnectedSelect(h) ==
    /\ hdl[h].dh = "sel"
    /\ NoMicrotask
    /\ hdl' = [hdl EXCEPT ![h].dh = "done"]
    /\ \/ /\ clients' = NoHandle
          /\ pushed' = Push(h, "disconnected")
          /\ UNCHANGED faults
       \/ /\ Fault
          /\ UNCHANGED <<clients, pushed>>
    /\ UNCHANGED <<qrCodes, initializationPromises, created, client, prom, call, disc,
                   session, events, lim, now, started, ext, messages, chats,
                   lastMessageTime, stat, sockets, emitted, retry, ingest, del, msg, runs>>

\* ------------------------------------------------------- disconnectClient
\* lines 698-701: up to await client.destroy(), or to await setActive
disconnectClient ==
    /\ disc.pc \in {"idle", "done"}
    /\ disc.n < lim.disconnects
    /\ NoMicrotask
    /\ IF clients # NoHandle
       THEN /\ client' = [client EXCEPT ![clients].destroyed = TRUE]
            /\ disc' = [pc |-> "destroy", res |-> "none", n |-> disc.n + 1, had |-> TRUE]
       ELSE /\ disc' = [pc |-> "upd", res |-> "none", n |-> disc.n + 1, had |-> FALSE]
            /\ UNCHANGED client
    /\ UNCHANGED <<clients, qrCodes, initializationPromises, created, prom, call, session,
                   hdl, pushed, faults, events, lim, now, started, ext, messages, chats,
                   lastMessageTime, stat, sockets, emitted, retry, ingest, del, msg, runs>>

\* client.destroy() of line 701 resolved (clients.delete, setActive issued) or threw
DisconnectDestroySettled ==
    /\ disc.pc = "destroy"
    /\ NoMicrotask
    /\ \/ /\ clients' = NoHandle
          /\ disc' = [disc EXCEPT !.pc = "upd"]
          /\ UNCHANGED faults
       \/ /\ disc' = [disc EXCEPT !.pc = "done", !.res = "error"]
          /\ Fault
          /\ UNCHANGED clients
    /\ UNCHANGED <<qrCodes, initializationPromises, created, client, prom, call, session,
                   hdl, pushed, events, lim, now, started, ext, messages, chats,
                   lastMessageTime, stat, sockets, emitted, retry, ingest, del, msg, runs>>

\* the UPDATE of setActive(userId, false) of line 705 ran, or the call threw
DisconnectUpdate ==
    /\ disc.pc = "upd"
    /\ NoMicrotask
    /\ \/ /\ session' = SetActiveRow(session, FALSE)
          /\ disc' = [disc EXCEPT !.pc = "sel"]
          /\ UNCHANGED faults
       \/ /\ disc' = [disc EXCEPT !.pc = "done", !.res = "error"]
          /\ Fault
          /\ UNCHANGED session
    /\ UNCHANGED <<clients, qrCodes, initializationPromises, created, client, prom, call,
                   hdl, pushed, events, lim, now, started, ext, messages, chats,
                   lastMessageTime, stat, sockets, emitted, retry, ingest, del, msg, runs>>

\* setActive returned: qrCodes.delete, initializationPromises.delete, success; or it threw
DisconnectSelect ==
    /\ disc.pc = "sel"
    /\ NoMicrotask
    /\ \/ /\ qrCodes' = FALSE
          /\ initializationPromises' = NoHandle
          /\ disc' = [disc EXCEPT !.pc = "done", !.res = "success"]
          /\ UNCHANGED faults
       \/ /\ disc' = [disc EXCEPT !.pc = "done", !.res = "error"]
          /\ Fault
          /\ UNCHANGED <<qrCodes, initializationPromises>>
    /\ UNCHANGED <<clients, created, client, prom, call, session, hdl, pushed, events, lim,
                   now, started, ext, messages, chats, lastMessageTime, stat, sockets,
                   emitted, retry, ingest, del, msg, runs>>

\* ---------------------------------------------------------- deleteSession
\* the deleteSession controller up to the first await of the disconnectClient it calls
deleteSession ==
    /\ del.pc = "idle"
    /\ disc.pc \in {"idle", "done"}
    /\ disc.n < lim.disconnects
    /\ NoMicrotask
    /\ del' = [pc |-> "disconnect", res |-> "none"]
    /\ IF clients # NoHandle
       THEN /\ client' = [client EXCEPT ![clients].destroyed = TRUE]
            /\ disc' = [pc |-> "destroy", res |-> "none", n |-> disc.n + 1, had |-> TRUE]
       ELSE /\ disc' = [pc |-> "upd", res |-> "none", n |-> disc.n + 1, had |-> FALSE]
            /\ UNCHANGED client
    /\ UNCHANGED <<clients, qrCodes, initializationPromises, created, prom, call, session,
                   hdl, pushed, faults, events, lim, now, started, ext, messages, chats,
                   lastMessageTime, stat, sockets, emitted, retry, ingest, msg, runs>>

\* disconnectClient returned (its result is not looked at): WhatsAppSession.delete issued
DeleteDisconnected ==
    /\ del.pc = "disconnect"
    /\ disc.pc = "done"
    /\ del' = [del EXCEPT !.pc = "sel"]
    /\ UNCHANGED <<clients, qrCodes, initializationPromises, created, client, prom, call,
                   disc, session, hdl, pushed, faults, events, lim, now, started, ext,
                   messages, chats, lastMessageTime, stat, sockets, emitted, retry, ingest,
                   msg, runs>>

\* the SELECT of WhatsAppSession.delete settled
DeleteSelectSettled ==
    /\ del.pc = "sel"
    /\ NoMicrotask
    /\ \/ /\ del' = [del EXCEPT !.pc = "del"]
          /\ UNCHANGED faults
       \/ /\ del' = [pc |-> "done", res |-> "error"]
          /\ Fault
    /\ UNCHANGED <<clients, qrCodes, initializationPromises, created, client, prom, call,
                   disc, session, hdl, pushed, events, lim, now, started, ext, messages,
                   chats, lastMessageTime, stat, sockets, emitted, retry, ingest, msg, runs>>

\* the DELETE of WhatsAppSession.delete settled: 200, or the catch answers 500
DeleteDeleteSettled ==
    /\ del.pc = "del"
    /\ NoMicrotask
    /\ \/ /\ session' = NoRow
          /\ del' = [pc |-> "done", res |-> "success"]
          /\ UNCHANGED faults
       \/ /\ session' \in {session, NoRow}
          /\ del' = [pc |-> "done", res |-> "error"]
          /\ Fault
    /\ UNCHANGED <<clients, qrCodes, initializationPromises, created, client, prom, call,
                   disc, hdl, pushed, events, lim, now, started, ext, messages, chats,
                   lastMessageTime, stat, sockets, emitted, retry, ingest, msg, runs>>

\* --------------------------------------------------- checkExistingSession
checkExistingSession(i) ==
    /\ Callable(i)
    /\ NoMicrotask
    /\ call' = [call EXCEPT ![i] = [pc |-> "chkFind", kind |-> "check", p |-> NoHandle,
                                    own |-> FALSE, res |-> "none"]]
    /\ UNCHANGED <<clients, qrCodes, initializationPromises, created, client, prom, disc,
                   session, hdl, pushed, faults, events, lim, now, started, ext, messages,
                   chats, lastMessageTime, stat, sockets, emitted, retry, ingest, del, msg,
                   runs>>

CheckDone(i, r) == [call[i] EXCEPT !.pc = "done", !.res = r]

\* findByUserId settled: lines 391-430, or the catch of line 480
CheckFindSettled(i) ==
    /\ call[i].pc = "chkFind"
    /\ NoMicrotask
    /\ \/ /\ call' = [call EXCEPT ![i] = CheckDone(i, "fallback")]
          /\ Fault
          /\ UNCHANGED <<clients, initializationPromises, created, client, prom, started>>
       \/ /\ UNCHANGED faults
          /\ IF ~session.exists
             THEN /\ call' = [call EXCEPT ![i] = CheckDone(i, "no_session")]
                  /\ UNCHANGED <<clients, initializationPromises, created, client, prom,
                                 started>>
             ELSE IF ~session.active
             THEN /\ call' = [call EXCEPT ![i] = CheckDone(i, "inactive")]
                  /\ UNCHANGED <<clients, initializationPromises, created, client, prom,
                                 started>>
             ELSE IF isClientReady
             THEN /\ call' = [call EXCEPT ![i] = CheckDone(i, "connected")]
                  /\ UNCHANGED <<clients, initializationPromises, created, client, prom,
                                 started>>
             ELSE InitializeBody(i, "check", NoHandle)
    /\ UNCHANGED <<qrCodes, disc, session, hdl, pushed, events, lim, now, ext, messages,
                   chats, lastMessageTime, stat, sockets, emitted, retry, ingest, del, msg,
                   runs>>

\* the 2000 ms wait of line 435 is over: connected is isClientReady
CheckPauseDone(i) ==
    /\ call[i].pc = "chkPause"
    /\ NoMicrotask
    /\ call' = [call EXCEPT ![i] = CheckDone(i, IF isClientReady THEN "connected"
                                                 ELSE "not_connected")]
    /\ UNCHANGED <<clients, qrCodes, initializationPromises, created, client, prom, disc,
                   session, hdl, pushed, faults, events, lim, now, started, ext, messages,
                   chats, lastMessageTime, stat, sockets, emitted, retry, ingest, del, msg,
                   runs>>

\* the UPDATE of setActive(userId, false) of line 449 ran, or the call threw
CheckUpdate(i) ==
    /\ call[i].pc = "chkUpd"
    /\ NoMicrotask
    /\ \/ /\ session' = SetActiveRow(session, FALSE)
          /\ call' = [call EXCEPT ![i].pc = "chkSel"]
          /\ UNCHANGED faults
       \/ /\ call' = [call EXCEPT ![i] = CheckDone(i, "fallback")]
          /\ Fault
          /\ UNCHANGED session
    /\ UNCHANGED <<clients, qrCodes, initializationPromises, created, client, prom, disc,
                   hdl, pushed, events, lim, now, started, ext, messages, chats,
                   lastMessageTime, stat, sockets, emitted, retry, ingest, del, msg, runs>>

\* setActive returned (lines 450-456) or threw (line 480)
CheckSelect(i) ==
    /\ call[i].pc = "chkSel"
    /\ NoMicrotask
    /\ \/ /\ call' = [call EXCEPT ![i] = CheckDone(i, "init_failed")]
          /\ UNCHANGED faults
       \/ /\ call' = [call EXCEPT ![i] = CheckDone(i, "fallback")]
          /\ Fault
    /\ UNCHANGED <<clients, qrCodes, initializationPromises, created, client, prom, disc,
                   session, hdl, pushed, events, lim, now, started, ext, messages, chats,
                   lastMessageTime, stat, sockets, emitted, retry, ingest, del, msg, runs>>

\* one time-unit passes; a timer that is due fires first
\* ---------------------------------------------------------------- ingestion
\* the messages of the external account, by id: message 1 carries a timestamp
\* in seconds, message 2 one in milliseconds and no body, message 3 none
ExtMsg(id) ==
    CASE id = 1 -> [id |-> 1, num |-> TRUE, ts |-> 5, body |-> "a"]
      [] id = 2 -> [id |-> 2, num |-> TRUE, ts |-> 2000, body |-> "null"]
      [] OTHER -> [id |-> 3, num |-> FALSE, ts |-> 0, body |-> "c"]

\* histories chat.fetchMessages can return; message 2 and 3 are in two of them
MsgLists == {<<>>, <<1>>, <<1, 2, 3>>, <<3, 2>>}

InitIngest ==
    /\ InitService
    /\ ext \in [Chats -> MsgLists]
    /\ lim = Limits(1, 0, 2, IngestFaults, FALSE, FALSE)

\* an account whose conversations all hold the three messages
InitGuard ==
    /\ InitService
    /\ ext = [c \in Chats |-> <<1, 2, 3>>]
    /\ lim = Limits(1, 0, GuardEvents, GuardFaults, FALSE, FALSE)

\* formatMessage with the test timestamp <= 1e12
formatMessage_AtThreshold(m) ==
    [messageId |-> m.id,
     body |-> IF m.body = "null" THEN "" ELSE m.body,
     timestamp |-> IF m.num
                   THEN (IF m.ts <= TsThreshold THEN m.ts * 1000 ELSE m.ts)
                   ELSE now]

\* formatMessage; Date.now() is the clock
formatMessage(m) ==
    [messageId |-> m.id,
     body |-> IF m.body = "null" THEN "" ELSE m.body,
     timestamp |-> IF m.num
                   THEN (IF m.ts < TsThreshold THEN m.ts * 1000 ELSE m.ts)
                   ELSE now]

\* the bulk statement with the timestamp among the columns it updates, as
\* Message.create has it
BulkUpdate_WithTimestamp(r, f) == [r EXCEPT !.body = f.body, !.timestamp = f.timestamp]

\* ON DUPLICATE KEY UPDATE sender_name = VALUES(sender_name), body = VALUES(body)
\* (sender_name is derived from the message like body and not modelled apart)
BulkUpdate(r, f) == [r EXCEPT !.body = f.body]

\* INSERT INTO messages ... ON DUPLICATE KEY UPDATE of one record under
\* UNIQUE KEY (user_id, message_id)
UpsertRow(t, chatId, f) ==
    IF \E r \in t : r.message_id = f.messageId
    THEN {IF r.message_id = f.messageId THEN BulkUpdate(r, f) ELSE r : r \in t}
    ELSE t \cup {[id |-> Cardinality(t) + 1, message_id |-> f.messageId,
                  chat_id |-> chatId, body |-> f.body, timestamp |-> f.timestamp]}

RECURSIVE BulkUpsert(_, _, _)
\* the bulk INSERT of one batch
BulkUpsert(t, chatId, fs) ==
    IF fs = <<>> THEN t
    ELSE BulkUpsert(UpsertRow(t, chatId, Head(fs)), chatId, Tail(fs))

Min(a, b) == IF a < b THEN a ELSE b
BatchEnd(b, n) == Min(b + BatchSize - 1, n)
Format(ids) == [k \in 1..Len(ids) |-> formatMessage(ExtMsg(ids[k]))]

RunLog(ok, rs, tot, proc) ==
    [success |-> ok, chats |-> rs, totalMessages |-> tot, table |-> messages,
     totalChats |-> IF ok THEN Len(ext) ELSE 0, totalChatsProcessed |-> proc]

\* the loop over chats after round g.i, g being the call's state at the end of
\* the round: the next round, or the return of lines 612-618
NextRound(g) ==
    IF g.i = Len(ext)
    THEN /\ ingest' = [g EXCEPT !.pc = "returned"]
         /\ runs' = Append(runs, RunLog(TRUE, g.results, g.totalMessages,
                                        g.totalChatsProcessed))
    ELSE /\ ingest' = [g EXCEPT !.pc = "chatCreate", !.i = @ + 1]
         /\ runs' = runs

\* the end of a round: totalChatsProcessed++ and results.push(res) of lines
\* 576-586, then the pause of lines 588-592, or results.push(res) of the catch
\* block; ingest.i - 1 is the loop index i of the source
EndChat(res, tot) ==
    LET ok == res.status = "success"
        g == [ingest EXCEPT !.results = Append(@, res), !.msgs = <<>>,
                            !.totalMessages = tot, !.b = 0, !.j = 0, !.bulkResults = <<>>,
                            !.totalChatsProcessed = IF ok THEN @ + 1 ELSE @]
    IN IF ok /\ (ingest.i - 1) % PauseEvery = 0 /\ ingest.i - 1 > 0
       THEN /\ ingest' = [g EXCEPT !.pc = "pause"]
            /\ runs' = runs
       ELSE NextRound(g)

ChatResult(c, n, st) == [chat |-> c, messageCount |-> n, status |-> st]

\* fetchAndSaveMessages up to await client.getChats()
fetchAndSaveMessages ==
    /\ ingest.pc \in {"idle", "returned", "thrown"}
    /\ ingest.run < IngestRuns
    /\ NoMicrotask
    /\ now' = now + 1
    /\ IF clients = NoHandle \/ ~client[clients].info
       THEN /\ ingest' = [IdleIngest EXCEPT !.pc = "thrown", !.run = ingest.run + 1]
            /\ runs' = Append(runs, RunLog(FALSE, <<>>, 0, 0))
       ELSE /\ ingest' = [IdleIngest EXCEPT !.pc = "getChats", !.run = ingest.run + 1]
            /\ runs' = runs
    /\ UNCHANGED <<clients, qrCodes, initializationPromises, created, client, prom, call,
                   disc, session, hdl, pushed, faults, events, lim, started, ext, messages,
                   chats, lastMessageTime, stat, sockets, emitted, retry, del, msg>>

\* client.getChats() settles
GetChatsSettled ==
    /\ ingest.pc = "getChats"
    /\ \/ /\ ingest' = [ingest EXCEPT !.pc = "chatCreate", !.i = 1]
          /\ UNCHANGED <<runs, faults>>
       \/ /\ Fault
          /\ ingest' = [ingest EXCEPT !.pc = "thrown"]
          /\ runs' = Append(runs, RunLog(FALSE, <<>>, 0, 0))
    /\ UNCHANGED <<clients, qrCodes, initializationPromises, created, client, prom, call,
                   disc, session, hdl, pushed, events, lim, now, started, ext, messages,
                   chats, lastMessageTime, stat, sockets, emitted, retry, del, msg>>

\* Chat.create settles
ChatCreateSettled ==
    /\ ingest.pc = "chatCreate"
    /\ \/ /\ chats' = chats \cup {ingest.i}
          /\ ingest' = [ingest EXCEPT !.pc = "fetch"]
          /\ UNCHANGED <<runs, faults>>
       \/ /\ Fault
          /\ chats' \in {chats, chats \cup {ingest.i}}
          /\ EndChat(ChatResult(ingest.i, 0, "error"), ingest.totalMessages)
    /\ UNCHANGED <<clients, qrCodes, initializationPromises, created, client, prom, call,
                   disc, session, hdl, pushed, events, lim, now, started, ext, messages,
                   lastMessageTime, stat, sockets, emitted, retry, del, msg>>

\* FetchSettled with the error of chat.fetchMessages reaching the catch of the chat
FetchSettled_Propagates ==
    /\ ingest.pc = "fetch"
    /\ \/ /\ IF Len(ext[ingest.i]) > 0
             THEN /\ ingest' = [ingest EXCEPT !.pc = "bulk", !.msgs = ext[ingest.i],
                                              !.b = 1]
                  /\ runs' = runs
             ELSE EndChat(ChatResult(ingest.i, 0, "success"), ingest.totalMessages)
          /\ UNCHANGED faults
       \/ /\ Fault
          /\ EndChat(ChatResult(ingest.i, 0, "error"), ingest.totalMessages)
    /\ UNCHANGED <<clients, qrCodes, initializationPromises, created, client, prom, call,
                   disc, session, hdl, pushed, events, lim, now, started, ext, messages,
                   chats, lastMessageTime, stat, sockets, emitted, retry, del, msg>>

\* chat.fetchMessages settles
FetchSettled ==
    /\ ingest.pc = "fetch"
    /\ \/ /\ IF Len(ext[ingest.i]) > 0
             THEN /\ ingest' = [ingest EXCEPT !.pc = "bulk", !.msgs = ext[ingest.i],
                                              !.b = 1]
                  /\ runs' = runs
             ELSE EndChat(ChatResult(ingest.i, 0, "success"), ingest.totalMessages)
          /\ UNCHANGED faults
       \/ /\ Fault
          /\ EndChat(ChatResult(ingest.i, 0, "success"), ingest.totalMessages)
    /\ UNCHANGED <<clients, qrCodes, initializationPromises, created, client, prom, call,
                   disc, session, hdl, pushed, events, lim, now, started, ext, messages,
                   chats, lastMessageTime, stat, sockets, emitted, retry, del, msg>>

\* Message.bulkCreate after a batch, rs being its results array: the next
\* batch, or back in fetchAndSaveMessages at Chat.updateLastMessageTime
AfterBatch(rs) ==
    IF ingest.b + BatchSize <= Len(ingest.msgs)
    THEN ingest' = [ingest EXCEPT !.pc = "bulk", !.b = @ + BatchSize, !.j = 0,
                                  !.bulkResults = rs]
    ELSE ingest' = [ingest EXCEPT !.pc = "updLast", !.j = 0, !.bulkResults = rs]

\* the bulk INSERT of a batch settles: results.push(...batch), or the fallback
BulkSettled ==
    /\ ingest.pc = "bulk"
    /\ LET batch == SubSeq(ingest.msgs, ingest.b, BatchEnd(ingest.b, Len(ingest.msgs))) IN
       \/ /\ messages' = BulkUpsert(messages, ingest.i, Format(batch))
          /\ AfterBatch(ingest.bulkResults \o batch)
          /\ UNCHANGED faults
       \/ /\ Fault
          /\ ingest' = [ingest EXCEPT !.pc = "fallback", !.j = ingest.b]
          /\ UNCHANGED messages
    /\ UNCHANGED <<clients, qrCodes, initializationPromises, created, client, prom, call,
                   disc, session, hdl, pushed, events, lim, now, started, ext, chats,
                   lastMessageTime, stat, sockets, emitted, retry, del, msg, runs>>

\* FallbackSettled with one try block around the loop of the fallback: the
\* first record that fails ends the fallback of its batch
FallbackSettled_Abort ==
    /\ ingest.pc = "fallback"
    /\ \/ /\ messages' = UpsertRow(messages, ingest.i,
                                   formatMessage(ExtMsg(ingest.msgs[ingest.j])))
          /\ UNCHANGED faults
          /\ LET rs == Append(ingest.bulkResults, ingest.msgs[ingest.j]) IN
             IF ingest.j < BatchEnd(ingest.b, Len(ingest.msgs))
             THEN ingest' = [ingest EXCEPT !.j = @ + 1, !.bulkResults = rs]
             ELSE AfterBatch(rs)
       \/ /\ Fault
          /\ UNCHANGED messages
          /\ AfterBatch(ingest.bulkResults)
    /\ UNCHANGED <<clients, qrCodes, initializationPromises, created, client, prom, call,
                   disc, session, hdl, pushed, events, lim, now, started, ext, chats,
                   lastMessageTime, stat, sockets, emitted, retry, del, msg, runs>>

\* an individual INSERT of the fallback settles: results.push(msg), or the
\* record is skipped
FallbackSettled ==
    /\ ingest.pc = "fallback"
    /\ \E rs \in {ingest.bulkResults, Append(ingest.bulkResults, ingest.msgs[ingest.j])} :
        /\ \/ /\ rs # ingest.bulkResults
              /\ messages' = UpsertRow(messages, ingest.i,
                                       formatMessage(ExtMsg(ingest.msgs[ingest.j])))
              /\ UNCHANGED faults
           \/ /\ rs = ingest.bulkResults
              /\ Fault
              /\ UNCHANGED messages
        /\ IF ingest.j < BatchEnd(ingest.b, Len(ingest.msgs))
           THEN ingest' = [ingest EXCEPT !.j = @ + 1, !.bulkResults = rs]
           ELSE AfterBatch(rs)
    /\ UNCHANGED <<clients, qrCodes, initializationPromises, created, client, prom, call,
                   disc, session, hdl, pushed, events, lim, now, started, ext, chats,
                   lastMessageTime, stat, sockets, emitted, retry, del, msg, runs>>

\* Chat.updateLastMessageTime(chatRecord.id, lastMessage.timestamp) settles,
\* lastMessage being messages[messages.length-1] as fetched
UpdLastSettled ==
    /\ ingest.pc = "updLast"
    /\ \/ /\ UNCHANGED faults
          /\ lastMessageTime' = [lastMessageTime EXCEPT ![ingest.i] =
                 UpdateLastMessageTime(ExtMsg(ingest.msgs[Len(ingest.msgs)]))]
          /\ EndChat(ChatResult(ingest.i, Len(ingest.msgs), "success"),
                     ingest.totalMessages + Len(ingest.msgs))
       \/ /\ Fault
          /\ UNCHANGED lastMessageTime
          /\ EndChat(ChatResult(ingest.i, Len(ingest.msgs), "success"),
                     ingest.totalMessages)
    /\ UNCHANGED <<clients, qrCodes, initializationPromises, created, client, prom, call,
                   disc, session, hdl, pushed, events, lim, now, started, ext, messages,
                   chats, stat, sockets, emitted, retry, del, msg>>

\* the 1000 ms pause of line 591 is over
PauseDone ==
    /\ ingest.pc = "pause"
    /\ NextRound(ingest)
    /\ UNCHANGED <<clients, qrCodes, initializationPromises, created, client, prom, call,
                   disc, session, hdl, pushed, faults, events, lim, now, started, ext,
                   messages, chats, lastMessageTime, stat, sockets, emitted, retry, del, msg>>

\* -------------------------------------------------------- 'message' handler
\* a body of n units; the unit at position k is k
Body(n) == [k \in 1..n |-> k]
BodyLens == {0, 1, PreviewCap - 1, PreviewCap, PreviewCap + 1, MaxBody}
\* '...': the unit '.' is 0
Ellipsis == <<0, 0, 0>>
\* '[Media message]': 15 units that are no units of a body
MediaPlaceholder == [k \in 1..15 |-> 0 - k]

\* Preview with the test body.length >= 100
Preview_AtCap(body) ==
    IF Len(body) = 0 THEN MediaPlaceholder
    ELSE IF Len(body) >= PreviewCap THEN SubSeq(body, 1, PreviewCap) \o Ellipsis
    ELSE body

\* the preview of lines 350-352
Preview(body) ==
    IF Len(body) = 0 THEN MediaPlaceholder
    ELSE IF Len(body) > PreviewCap THEN SubSeq(body, 1, PreviewCap) \o Ellipsis
    ELSE body

\* the conversation every 'message' event belongs to
EventChat == 1
\* the id of the message of the n-th 'message' event
EventId(n) == 10 + n

\* the timestamps the library delivers with a 'message' event: a number of
\* seconds, the numbers around 1e12, or no number at all
EventStamps == {[num |-> FALSE, ts |-> 0], [num |-> TRUE, ts |-> 5],
                [num |-> TRUE, ts |-> TsThreshold - 1], [num |-> TRUE, ts |-> TsThreshold]}

\* the message of the 'message' event being handled, as formatMessage and
\* Chat.updateLastMessageTime read it
EventMsg == [id |-> EventId(msg.n), num |-> msg.num, ts |-> msg.ts, body |-> "text"]

\* Message.create: INSERT ... ON DUPLICATE KEY UPDATE sender_name, sender_number,
\* body, message_type, timestamp
MessageCreate(t, id, body, ts) ==
    IF \E r \in t : r.message_id = id
    THEN {IF r.message_id = id THEN [r EXCEPT !.body = body, !.timestamp = ts]
          ELSE r : r \in t}
    ELSE t \cup {[id |-> Cardinality(t) + 1, message_id |-> id, chat_id |-> EventChat,
                  body |-> body, timestamp |-> ts]}

\* the library emits 'message' on a ready client: the handler runs up to
\* await message.getChat().  One handler is followed at a time.
MessageEvent(h) ==
    /\ client[h].lib = "ready" /\ ~client[h].destroyed
    /\ msg.pc \in {"idle", "done"}
    /\ msg.n < NotifyMessages
    /\ NoMicrotask
    /\ \E fm \in BOOLEAN, n \in BodyLens, t \in EventStamps :
          msg' = [IdleMsg EXCEPT !.pc = "getChat", !.h = h, !.n = msg.n + 1,
                                 !.fromMe = fm, !.body = Body(n),
                                 !.num = t.num, !.ts = t.ts]
    /\ UNCHANGED <<clients, qrCodes, initializationPromises, created, client, prom, call,
                   disc, session, hdl, pushed, faults, events, lim, now, started, ext,
                   messages, chats, lastMessageTime, stat, sockets, emitted, retry, ingest,
                   del, runs>>

\* message.getChat() settled: saveMessage is called and runs up to await
\* Chat.create; or getChat threw and the catch of line 376 ends the handler
MsgGetChatSettled ==
    /\ msg.pc = "getChat"
    /\ \/ /\ msg' = [msg EXCEPT !.pc = "chatCreate", !.handed = TRUE]
          /\ UNCHANGED faults
       \/ /\ msg' = [msg EXCEPT !.pc = "done"]
          /\ Fault
    /\ UNCHANGED <<clients, qrCodes, initializationPromises, created, client, prom, call,
                   disc, session, hdl, pushed, events, lim, now, started, ext, messages,
                   chats, lastMessageTime, stat, sockets, emitted, retry, ingest, del, runs>>

\* AfterSave without the test !message.fromMe of line 324
AfterSave_NoOwnerTest == [msg EXCEPT !.pc = "getContact"]

\* the handler after saveMessage has returned (it never throws): lines 324-327
\* up to await message.getContact(), or the end of the handler
AfterSave == IF ~msg.fromMe THEN [msg EXCEPT !.pc = "getContact"] ELSE [msg EXCEPT !.pc = "done"]

\* Chat.create of saveMessage settled
MsgChatCreateSettled ==
    /\ msg.pc = "chatCreate"
    /\ \/ /\ chats' = chats \cup {EventChat}
          /\ msg' = [msg EXCEPT !.pc = "msgCreate"]
          /\ UNCHANGED faults
       \/ /\ chats' \in {chats, chats \cup {EventChat}}
          /\ msg' = AfterSave
          /\ Fault
    /\ UNCHANGED <<clients, qrCodes, initializationPromises, created, client, prom, call,
                   disc, session, hdl, pushed, events, lim, now, started, ext, messages,
                   lastMessageTime, stat, sockets, emitted, retry, ingest, del, runs>>

\* Message.create of saveMessage settled: the INSERT ran or failed, the SELECT
\* returned or threw
MsgCreateSettled ==
    /\ msg.pc = "msgCreate"
    /\ \/ /\ messages' = MessageCreate(messages, EventId(msg.n), msg.body,
                                       formatMessage(EventMsg).timestamp)
          /\ msg' = [msg EXCEPT !.pc = "updLast"]
          /\ UNCHANGED faults
       \/ /\ messages' \in {messages, MessageCreate(messages, EventId(msg.n), msg.body,
                                       formatMessage(EventMsg).timestamp)}
          /\ msg' = AfterSave
          /\ Fault
    /\ UNCHANGED <<clients, qrCodes, initializationPromises, created, client, prom, call,
                   disc, session, hdl, pushed, events, lim, now, started, ext, chats,
                   lastMessageTime, stat, sockets, emitted, retry, ingest, del, runs>>

\* Chat.updateLastMessageTime(chatRecord.id, message.timestamp) of saveMessage
\* settled
MsgUpdLastSettled ==
    /\ msg.pc = "updLast"
    /\ msg' = AfterSave
    /\ \/ /\ lastMessageTime' = [lastMessageTime EXCEPT ![EventChat] =
                 UpdateLastMessageTime(EventMsg)]
          /\ UNCHANGED faults
       \/ /\ UNCHANGED lastMessageTime
          /\ Fault
    /\ UNCHANGED <<clients, qrCodes, initializationPromises, created, client, prom, call,
                   disc, session, hdl, pushed, events, lim, now, started, ext, messages,
                   chats, stat, sockets, emitted, retry, ingest, del, runs>>

\* message.getContact() settled: notificationData is built and the handler
\* runs up to await contact.getProfilePicUrl(); or it threw (catch of line 376)
MsgContactSettled ==
    /\ msg.pc = "getContact"
    /\ \/ /\ msg' = [msg EXCEPT !.pc = "pic",
                                !.note = [preview |-> Preview(msg.body), pic |-> "null"]]
          /\ UNCHANGED faults
       \/ /\ msg' = [msg EXCEPT !.pc = "done"]
          /\ Fault
    /\ UNCHANGED <<clients, qrCodes, initializationPromises, created, client, prom, call,
                   disc, session, hdl, pushed, events, lim, now, started, ext, messages,
                   chats, lastMessageTime, stat, sockets, emitted, retry, ingest, del, runs>>

\* contact.getProfilePicUrl() settled (its error is caught at line 358): emit
\* new_message_notification and new_message
MsgPicSettled ==
    /\ msg.pc = "pic"
    /\ \/ /\ msg' = [msg EXCEPT !.pc = "done", !.note.pic = "url", !.sent = TRUE]
          /\ UNCHANGED faults
       \/ /\ msg' = [msg EXCEPT !.pc = "done", !.sent = TRUE]
          /\ Fault
    /\ pushed' = [pushed EXCEPT ![msg.h] = @ \cup {"new_message_notification", "new_message"}]
    /\ UNCHANGED <<clients, qrCodes, initializationPromises, created, client, prom, call,
                   disc, session, hdl, events, lim, now, started, ext, messages, chats,
                   lastMessageTime, stat, sockets, emitted, retry, ingest, del, runs>>

MessageHandling ==
    \/ \E h \in Handles : MessageEvent(h)
    \/ MsgGetChatSettled
    \/ MsgChatCreateSettled
    \/ MsgCreateSettled
    \/ MsgUpdLastSettled
    \/ MsgContactSettled
    \/ MsgPicSettled

InitNotify ==
    /\ InitService
    /\ ext = NoChats
    /\ lim = Limits(1, 0, 2, NotifyFaults, FALSE, FALSE)

NextNotify ==
    \/ \E i \in Callers : initializeClient(i)
    \/ \E i \in Callers : AwaitSettled(i)
    \/ \E h \in Handles : AuthenticatedEvent(h)
    \/ \E h \in Handles : ReadyEvent(h)
    \/ MessageHandling

SpecNotify == InitNotify /\ [][NextNotify]_vars

\* getClientStatus(userId) up to await WhatsAppSession.findByUserId: the
\* registered client is read before the await
getClientStatus ==
    /\ stat.pc \in {"idle", "done"}
    /\ stat.n < StatusCalls
    /\ NoMicrotask
    /\ stat' = [IdleStat EXCEPT !.pc = "find", !.n = stat.n + 1, !.h = clients]
    /\ UNCHANGED <<clients, qrCodes, initializationPromises, created, client, prom, call,
                   disc, session, hdl, pushed, faults, events, lim, now, started, ext,
                   messages, chats, lastMessageTime, sockets, emitted, retry, ingest, del,
                   msg, runs>>

\* findByUserId settled: the result is built from the client read before the
\* await and the row; or it threw and the catch returns the all-false result
StatusSettled ==
    /\ stat.pc = "find"
    /\ \/ /\ stat' = [stat EXCEPT !.pc = "done", !.read = TRUE,
                          !.res = [connected |-> stat.h # NoHandle /\ client[stat.h].info,
                                   hasSession |-> session.exists,
                                   isActive |-> session.exists /\ session.active,
                                   phoneNumber |-> session.exists /\ session.phone]]
          /\ UNCHANGED faults
       \/ /\ stat' = [stat EXCEPT !.pc = "done", !.res = NoStatus]
          /\ Fault
    /\ UNCHANGED <<clients, qrCodes, initializationPromises, created, client, prom, call,
                   disc, session, hdl, pushed, events, lim, now, started, ext, messages,
                   chats, lastMessageTime, sockets, emitted, retry, ingest, del, msg, runs>>

Tick ==
    /\ lim.timed
    /\ now < MaxTime
    /\ \A h \in Handles : prom[h].st = "pending" => now < started[h] + InitTimeout
    /\ now' = now + 1
    /\ UNCHANGED <<clients, qrCodes, initializationPromises, created, client, prom, call,
                   disc, session, hdl, pushed, faults, events, lim, started, ext, messages,
                   chats, lastMessageTime, stat, sockets, emitted, retry, ingest, del, msg,
                   runs>>

InitCalls ==
    \/ \E i \in Callers : initializeClient(i)
    \/ \E i \in Callers : DestroyOldSettled(i)
    \/ \E i \in Callers : AwaitSettled(i)
    \/ \E h \in Handles : InitTimeoutFires(h)
    \/ \E h \in Handles : ConnectRejects(h)
    \/ \E h \in Handles : CleanupSettled(h)

DisconnectCalls ==
    \/ disconnectClient
    \/ DisconnectDestroySettled
    \/ DisconnectUpdate
    \/ DisconnectSelect

CheckCalls ==
    \/ \E i \in Callers : checkExistingSession(i)
    \/ \E i \in Callers : CheckFindSettled(i)
    \/ \E i \in Callers : CheckPauseDone(i)
    \/ \E i \in Callers : CheckUpdate(i)
    \/ \E i \in Callers : CheckSelect(i)

Connecting ==
    \/ \E h \in Handles : AuthenticatedEvent(h)
    \/ \E h \in Handles : ReadyEvent(h)
    \/ \E h \in Handles : AuthFailureEvent(h)
    \/ \E h \in Handles : AuthFailureSettled(h)

Disconnecting ==
    \/ \E h \in Handles : DisconnectedEvent(h)
    \/ \E h \in Handles : DisconnectedUpdate(h)
    \/ \E h \in Handles : DisconnectedSelect(h)

Background ==
    \/ \E h \in Handles : BgStart(h)
    \/ \E h \in Handles, k \in 1..3 : BgOpSettled(h, k)
    \/ \E h \in Handles : BgFinished(h)
    \/ \E h \in Handles : BgTimeoutFires(h)

Pairing ==
    \/ \E h \in Handles : QrEvent(h)
    \/ \E h \in Handles : QrRendered(h)
    \/ \E h \in Handles : QrCreateSettled(h)

\* the background writes of a Ready handler stay pending in SpecRace and SpecDedup
NextRace == InitCalls \/ DisconnectCalls \/ CheckCalls \/ Connecting \/ Disconnecting
NextDedup == InitCalls \/ Connecting
\* with LifeCallers = 1 no call finds a client that is registered and not ready
NextLife ==
    \/ \E i \in Callers : initializeClient(i)
    \/ \E i \in Callers : AwaitSettled(i)
    \/ \E h \in Handles : InitTimeoutFires(h)
    \/ \E h \in Handles : ConnectRejects(h)
    \/ \E h \in Handles : CleanupSettled(h)
    \/ DisconnectCalls \/ CheckCalls \/ Connecting \/ Disconnecting
    \/ Background \/ Pairing
NextTimed ==
    \/ Tick
    \/ \E i \in Callers : initializeClient(i)
    \/ \E i \in Callers : AwaitSettled(i)
    \/ \E h \in Handles : InitTimeoutFires(h)
    \/ \E h \in Handles : CleanupSettled(h)

NextIngest ==
    \/ \E i \in Callers : initializeClient(i)
    \/ \E i \in Callers : AwaitSettled(i)
    \/ \E h \in Handles : AuthenticatedEvent(h)
    \/ \E h \in Handles : ReadyEvent(h)
    \/ fetchAndSaveMessages
    \/ GetChatsSettled
    \/ ChatCreateSettled
    \/ FetchSettled
    \/ BulkSettled
    \/ FallbackSettled
    \/ UpdLastSettled

DeleteCalls ==
    \/ deleteSession
    \/ DeleteDisconnected
    \/ DeleteSelectSettled
    \/ DeleteDeleteSettled

NextTeardown ==
    \/ \E i \in Callers : initializeClient(i)
    \/ \E i \in Callers : DestroyOldSettled(i)
    \/ \E i \in Callers : AwaitSettled(i)
    \/ \E h \in Handles : InitTimeoutFires(h)
    \/ \E h \in Handles : ConnectRejects(h)
    \/ \E h \in Handles : CleanupSettled(h)
    \/ DisconnectCalls
    \/ DeleteCalls

\* what the event loop guarantees: a timer that is armed fires, a continuation
\* whose promise has settled runs
Scheduling ==
    /\ \A h \in Handles : WF_vars(InitTimeoutFires(h))
    /\ \A i \in Callers : WF_vars(AwaitSettled(i))
    /\ WF_vars(DeleteDisconnected)

\* every call to the external client and to the durable store settles
CollaboratorsSettle ==
    /\ \A h \in Handles : WF_vars(CleanupSettled(h))
    /\ \A i \in Callers : WF_vars(DestroyOldSettled(i))
    /\ WF_vars(DisconnectDestroySettled)
    /\ WF_vars(DisconnectUpdate)
    /\ WF_vars(DisconnectSelect)
    /\ WF_vars(DeleteSelectSettled)
    /\ WF_vars(DeleteDeleteSettled)

NextGuard == NextIngest \/ Disconnecting

\* an account of PauseChats conversations, the first of which holds messages
InitPause ==
    /\ InitService
    /\ ext = [c \in 1..PauseChats |-> IF c = 1 THEN <<1, 2, 3>> ELSE <<>>]
    /\ lim = Limits(1, 0, 2, PauseFaults, FALSE, FALSE)

NextPause == NextIngest \/ PauseDone

\* status reads while a client connects and disconnects
InitStatus ==
    /\ InitService
    /\ ext = NoChats
    /\ lim = Limits(1, 1, StatusEvents, StatusFaults, FALSE, FALSE)

NextStatus ==
    \/ \E i \in Callers : initializeClient(i)
    \/ \E i \in Callers : AwaitSettled(i)
    \/ \E h \in Handles : AuthenticatedEvent(h)
    \/ \E h \in Handles : ReadyEvent(h)
    \/ Disconnecting
    \/ getClientStatus
    \/ StatusSettled

SpecStatus == InitStatus /\ [][NextStatus]_vars

\* ------------------------------------------------------------- Socket.IO
\* the room of user u: `user_${u}`
UserRoom(u) == u

\* the room names a join_room / leave_room request can carry: the user rooms and
\* one other name
Rooms == {UserRoom(u) : u \in Users} \cup {0}

\* the io.use middleware: a handshake without a token or with a token that
\* jwt.verify rejects (t = 0) is refused; a token of user t sets socket.userId
\* and joins the room of that user
SocketConnect(s, t) ==
    /\ sockets[s].userId = 0
    /\ t # 0
    /\ sockets' = [sockets EXCEPT ![s] = [userId |-> t, rooms |-> {UserRoom(t)},
                                          received |-> {}]]
    /\ UNCHANGED <<clients, qrCodes, initializationPromises, created, client, prom, call,
                   disc, session, hdl, pushed, faults, events, lim, now, started, ext,
                   messages, chats, lastMessageTime, stat, emitted, retry, ingest, del,
                   msg, runs>>

\* socket.on('join_room'): socket.join(room)
JoinRoom(s, room) ==
    /\ sockets[s].userId # 0
    /\ room \notin sockets[s].rooms
    /\ sockets' = [sockets EXCEPT ![s].rooms = @ \cup {room}]
    /\ UNCHANGED <<clients, qrCodes, initializationPromises, created, client, prom, call,
                   disc, session, hdl, pushed, faults, events, lim, now, started, ext,
                   messages, chats, lastMessageTime, stat, emitted, retry, ingest, del,
                   msg, runs>>

\* socket.on('leave_room'): socket.leave(room)
LeaveRoom(s, room) ==
    /\ sockets[s].userId # 0
    /\ room \in sockets[s].rooms
    /\ sockets' = [sockets EXCEPT ![s].rooms = @ \ {room}]
    /\ UNCHANGED <<clients, qrCodes, initializationPromises, created, client, prom, call,
                   disc, session, hdl, pushed, faults, events, lim, now, started, ext,
                   messages, chats, lastMessageTime, stat, emitted, retry, ingest, del,
                   msg, runs>>

\* io.to(`user_${u}`).emit(...): the event reaches every socket in the room
EmitToUser(u) ==
    /\ emitted < MaxEmits
    /\ emitted' = emitted + 1
    /\ sockets' = [s \in Sockets |->
                     IF UserRoom(u) \in sockets[s].rooms
                     THEN [sockets[s] EXCEPT !.received = @ \cup {[to |-> u, n |-> emitted + 1]}]
                     ELSE sockets[s]]
    /\ UNCHANGED <<clients, qrCodes, initializationPromises, created, client, prom, call,
                   disc, session, hdl, pushed, faults, events, lim, now, started, ext,
                   messages, chats, lastMessageTime, stat, retry, ingest, del, msg, runs>>

InitRooms ==
    /\ InitService
    /\ ext = NoChats
    /\ lim = Limits(0, 0, 0, 0, FALSE, FALSE)

NextRooms ==
    \/ \E s \in Sockets, t \in {0} \cup Users : SocketConnect(s, t)
    \/ \E s \in Sockets, room \in Rooms : JoinRoom(s, room)
    \/ \E s \in Sockets, room \in Rooms : LeaveRoom(s, room)
    \/ \E u \in Users : EmitToUser(u)

SpecRooms == InitRooms /\ [][NextRooms]_vars

\* ------------------------------------------------------- connectWithRetry
\* connectWithRetry(retries) up to await pool.getConnection() of the first
\* iteration
connectWithRetry(retries) ==
    /\ retry.pc \in {"idle", "done"}
    /\ retry' = [IdleRetry EXCEPT !.pc = "getConnection", !.retries = retries,
                                  !.attempts = 1]
    /\ UNCHANGED <<clients, qrCodes, initializationPromises, created, client, prom, call,
                   disc, session, hdl, pushed, faults, events, lim, now, started, ext,
                   messages, chats, lastMessageTime, stat, sockets, emitted, ingest, del,
                   msg, runs>>

\* the finally block: connection.release() if a connection was obtained
Release(r) ==
    IF r.held THEN [r EXCEPT !.held = FALSE, !.released = @ + 1] ELSE r

\* the catch block: the last iteration returns false through the finally block,
\* any other arms the timer of 2000 * (i + 1) ms and waits for it inside the catch
AttemptFailed(r) ==
    IF r.i = r.retries - 1
    THEN [Release(r) EXCEPT !.pc = "done", !.res = "false"]
    ELSE [r EXCEPT !.pc = "wait"]

\* pool.getConnection() settled: the connection is obtained and SELECT NOW() is
\* issued, or it threw
GetConnectionSettled ==
    /\ retry.pc = "getConnection"
    /\ \/ retry' = [retry EXCEPT !.pc = "execute", !.held = TRUE, !.acquired = @ + 1]
       \/ retry' = AttemptFailed(retry)
    /\ UNCHANGED <<clients, qrCodes, initializationPromises, created, client, prom, call,
                   disc, session, hdl, pushed, faults, events, lim, now, started, ext,
                   messages, chats, lastMessageTime, stat, sockets, emitted, ingest, del,
                   msg, runs>>

\* connection.execute('SELECT NOW()') settled: return true through the finally
\* block, or it threw
ExecuteSettled ==
    /\ retry.pc = "execute"
    /\ \/ retry' = [Release([retry EXCEPT !.succeeded = @ + 1])
                       EXCEPT !.pc = "done", !.res = "true"]
       \/ retry' = AttemptFailed(retry)
    /\ UNCHANGED <<clients, qrCodes, initializationPromises, created, client, prom, call,
                   disc, session, hdl, pushed, faults, events, lim, now, started, ext,
                   messages, chats, lastMessageTime, stat, sockets, emitted, ingest, del,
                   msg, runs>>

\* RetryTimerFires with a finally block that releases nothing
RetryTimerFires_NoRelease ==
    /\ retry.pc = "wait"
    /\ retry' = IF retry.i + 1 < retry.retries
                THEN [[retry EXCEPT !.held = FALSE] EXCEPT !.pc = "getConnection",
                                             !.i = @ + 1, !.attempts = @ + 1]
                ELSE [[retry EXCEPT !.held = FALSE] EXCEPT !.pc = "done",
                                             !.res = "undefined"]
    /\ UNCHANGED <<clients, qrCodes, initializationPromises, created, client, prom, call,
                   disc, session, hdl, pushed, faults, events, lim, now, started, ext,
                   messages, chats, lastMessageTime, stat, sockets, emitted, ingest, del,
                   msg, runs>>

\* the backoff timer fired: the finally block runs, then the loop either starts
\* its next iteration or is left, the function returning undefined
RetryTimerFires ==
    /\ retry.pc = "wait"
    /\ retry' = IF retry.i + 1 < retry.retries
                THEN [Release(retry) EXCEPT !.pc = "getConnection",
                                             !.i = @ + 1, !.attempts = @ + 1]
                ELSE [Release(retry) EXCEPT !.pc = "done", !.res = "undefined"]
    /\ UNCHANGED <<clients, qrCodes, initializationPromises, created, client, prom, call,
                   disc, session, hdl, pushed, faults, events, lim, now, started, ext,
                   messages, chats, lastMessageTime, stat, sockets, emitted, ingest, del,
                   msg, runs>>

InitRetry ==
    /\ InitService
    /\ ext = NoChats
    /\ lim = Limits(0, 0, 0, 0, FALSE, FALSE)

NextRetry ==
    \/ \E retries \in 1..MaxRetries : connectWithRetry(retries)
    \/ GetConnectionSettled
    \/ ExecuteSettled
    \/ RetryTimerFires

\* the pool answers every getConnection and execute (mysql2 bounds a connect by
\* its connectTimeout) and an armed timer fires
RetrySettles ==
    /\ WF_vars(GetConnectionSettled)
    /\ WF_vars(ExecuteSettled)
    /\ WF_vars(RetryTimerFires)

SpecRetry == InitRetry /\ [][NextRetry]_vars /\ RetrySettles

\* the lifecycle of a user without an active session (never paired, or paired
\* and disconnected), with collaborators that never fail
InitFresh ==
    /\ InitService
    /\ ~session.active
    /\ ext = NoChats
    /\ lim = Limits(FreshCallers, FreshDisconnects, FreshEvents, 0, TRUE, FALSE)

\* one initializeClient call, disconnects and the events of its client
NextFresh ==
    \/ \E i \in Callers : initializeClient(i)
    \/ \E i \in Callers : AwaitSettled(i)
    \/ \E h \in Handles : InitTimeoutFires(h)
    \/ \E h \in Handles : ConnectRejects(h)
    \/ \E h \in Handles : CleanupSettled(h)
    \/ DisconnectCalls \/ Connecting \/ Disconnecting
    \/ Background \/ Pairing

SpecFresh == InitFresh /\ [][NextFresh]_vars

SpecRace == InitRace /\ [][NextRace]_vars
SpecDedup == InitDedup /\ [][NextDedup]_vars
SpecLife == InitLife /\ [][NextLife]_vars
SpecTimed == InitTimed /\ [][NextTimed]_vars
SpecIngest == InitIngest /\ [][NextIngest]_vars
SpecGuard == InitGuard /\ [][NextGuard]_vars
\* NumChats conversations never bring the loop of fetchAndSaveMessages to its
\* pause; SpecPause does
SpecPause == InitPause /\ [][NextPause]_vars
\* teardown with collaborators that always answer
SpecSettle == InitTeardown /\ [][NextTeardown]_vars /\ Scheduling /\ CollaboratorsSettle
\* teardown with collaborators that may never answer
SpecHang == InitTeardown /\ [][NextTeardown]_vars /\ Scheduling
\* ------------------------------------------------------------------ claims
InProgress(i) == call[i].kind = "init" /\ call[i].pc \in {"destroyOld", "await"}

\* C1 (SpecDedup): of two initializeClient calls that are in progress at the same
\* time at most one has constructed a client and issued a connect command, and
\* both await the same initialization promise, hence return the same result.
C1_Dedup ==
    \A i, j \in Callers :
        (i # j /\ InProgress(i) /\ InProgress(j)) =>
            /\ ~(call[i].own /\ call[j].own)
            /\ (call[i].pc = "await" /\ call[j].pc = "await") => call[i].p = call[j].p

Running(h) == prom[h].st \in {"pending", "cleanup"}

\* C2 (SpecRace): at most one initialization (a _performInitialization run that
\* has started and whose promise has not settled) is running for the user.
C2_AtMostOneInit == Cardinality({h \in Handles : Running(h)}) <= 1

\* C3 (SpecTimed): an initializeClient call whose connect never settles has
\* returned once more than InitTimeout time-units have passed since it armed its
\* timer, and after it has returned no in-flight entry remains.
C3_Timely ==
    \A i \in Callers :
        /\ call[i].pc = "await" => now <= started[call[i].p] + InitTimeout
        /\ call[i].pc = "done" => initializationPromises = NoHandle

WritesStarted(h) == hdl[h].bg \in {"running", "done"}
ReturnedConnected(h) == \E i \in Callers : call[i].p = h /\ call[i].res = "connected"
BgStep(h) == hdl'[h].op # hdl[h].op \/ (hdl[h].bg = "running" /\ hdl'[h].bg = "done")

\* C4 (SpecLife): the ready push of a client is emitted before any durable write
\* of its Ready handler starts and before initializeClient returns connected; and
\* no step of the background persistence (a write settling or failing, the 10 s
\* timeout) changes isClientReady, the handle map or the client, or pushes
\* anything but session_saved.
C4_ReadyBeforePersist ==
    /\ [](\A h \in Handles :
            (WritesStarted(h) \/ ReturnedConnected(h)) => "ready" \in pushed[h])
    /\ [][\A h \in Handles :
            BgStep(h) =>
                /\ clients' = clients
                /\ client' = client
                /\ isClientReady' = isClientReady
                /\ (pushed'[h] \ pushed[h]) \subseteq
                       {"session_saved_true", "session_saved_false"}]_vars

\* C4 witness: a client is registered and ready, its initializeClient call has
\* returned connected, and its background persistence has ended with a failed
\* write or with the timeout.
C4_Witness ==
    \E h \in Handles :
        /\ clients = h /\ isClientReady
        /\ ReturnedConnected(h)
        /\ hdl[h].bg = "done"
        /\ \/ \E k \in 1..3 : hdl[h].op[k] = "err"
           \/ "session_saved_false" \in pushed[h]

Handled(h) == hdl[h].dh \in {"none", "done"} /\ hdl[h].af \in {"none", "done"}

\* C5 (SpecLife): once the registered client has received 'disconnected' or
\* 'auth_failure' and the handler of that event has run to its end, isClientReady
\* is false as long as that client is the registered one.
C5_NoReadyAfterTerminal ==
    \A h \in Handles :
        (clients = h /\ client[h].lib \in {"closed", "failed"} /\ Handled(h))
            => ~isClientReady

C8_Call(i) ==
    /\ Callable(i)
    /\ isClientReady
    /\ initializationPromises = NoHandle
    /\ call'[i].pc # "idle"
    /\ call'[i].kind = "init"

\* C8 (SpecRace): initializeClient called with a ready client registered and no
\* initialization in flight returns "already connected" in the same step and
\* changes nothing: no client is created or destroyed, no connect command, no
\* push, no durable write, the three registries are as before.
C8_ReadyFrame ==
    [][\A i \in Callers :
          C8_Call(i) =>
              /\ call'[i].pc = "done"
              /\ call'[i].res = "already_connected"
              /\ UNCHANGED <<clients, qrCodes, initializationPromises, created, client,
                             prom, disc, session, hdl, pushed>>]_vars

\* C8 witness: an initializeClient call has returned "already connected".
C8_Witness ==
    \E i \in Callers : call[i].kind = "init" /\ call[i].res = "already_connected"

Live(h) == client[h].lib \in {"init", "authd", "ready"} /\ ~client[h].destroyed

\* C9 (SpecLife): at the step in which disconnectClient returns success no client
\* is live, no handle is registered, no pairing artifact is cached, no in-flight
\* entry exists and the session row is not active.
C9_DisconnectPost ==
    [][(disc.pc = "sel" /\ disc'.pc = "done" /\ disc'.res = "success") =>
          /\ \A h \in Handles : ~Live(h)'
          /\ clients' = NoHandle
          /\ ~qrCodes'
          /\ initializationPromises' = NoHandle
          /\ ~session'.active]_vars

\* C10 (SpecLife): a disconnectClient call that found no client registered
\* destroys no client and returns success, whatever the durable store does.
C10_NoHandleSuccess ==
    [][/\ (disc.pc \in {"idle", "done"} /\ disc'.pc = "upd") => client' = client
       /\ (~disc.had /\ disc.pc \in {"upd", "sel"} /\ disc'.pc = "done")
              => disc'.res = "success"]_vars
FetchThrows == ingest.pc = "fetch" /\ faults' > faults
Recorded == Len(ingest'.results) > Len(ingest.results)
LastResult == ingest'.results[Len(ingest'.results)]

\* C6 as stated (SpecIngest): in the step in which the history fetch of
\* conversation C throws, C is recorded with status error.
C6_FetchErrorIsError ==
    [][FetchThrows =>
          /\ Recorded
          /\ ingest'.results[ingest.i].status = "error"]_vars

\* C6 amended (SpecIngest): when the history fetch of conversation C throws, C is
\* recorded with status success and zero messages, no message record is written
\* for it and the run goes on with the next conversation; a conversation is
\* recorded with status error exactly when the upsert of its conversation record
\* throws; a run that returns has recorded every conversation, in order.
C6_FetchErrorRecordedEmpty ==
    /\ [][FetchThrows =>
            /\ ingest'.results = Append(ingest.results, ChatResult(ingest.i, 0, "success"))
            /\ messages' = messages
            /\ ingest'.pc = IF ingest.i = NumChats THEN "returned" ELSE "chatCreate"]_vars
    /\ [][Recorded => (LastResult.status = "error" <=> ingest.pc = "chatCreate")]_vars
    /\ [](ingest.pc = "returned" =>
            /\ Len(ingest.results) = NumChats
            /\ \A p \in Chats : ingest.results[p].chat = p)

\* C6 witness: a run has returned in which the fetch of the second conversation
\* threw (it has messages and is recorded with none) and the conversations
\* before and after it were stored and recorded with status success.
C6_Witness ==
    /\ ingest.pc = "returned"
    /\ Len(ext[2]) > 0
    /\ ingest.results[2] = ChatResult(2, 0, "success")
    /\ ingest.results[1] = ChatResult(1, Len(ext[1]), "success") /\ Len(ext[1]) > 0
    /\ ingest.results[3] = ChatResult(3, Len(ext[3]), "success") /\ Len(ext[3]) > 0
    /\ ingest.totalMessages = Len(ext[1]) + Len(ext[3])

AllStored(t) ==
    \A c \in Chats : \A k \in 1..Len(ext[c]) : \E r \in t : r.message_id = ext[c][k]

\* C7 (SpecIngest): the messages table never holds two records with the same
\* external message id; a fetchAndSaveMessages run removes or changes no record
\* that was there when the run before it ended; and when the run before it had
\* stored every message of the account, the run leaves the table as it was.
C7_Idempotent ==
    /\ \A r1, r2 \in messages : r1.message_id = r2.message_id => r1 = r2
    /\ \A n \in 1..(Len(runs) - 1) :
          /\ runs[n].table \subseteq runs[n + 1].table
          /\ AllStored(runs[n].table) => runs[n + 1].table = runs[n].table

\* C7 witness: two runs have returned, the first stored all three messages of the
\* account, among them the one whose timestamp is the time of the run, and the
\* second sent them to the store again.
C7_Witness ==
    /\ Len(runs) = 2
    /\ runs[1].success /\ runs[2].success
    /\ AllStored(runs[1].table)
    /\ Cardinality(runs[1].table) = 3
    /\ runs[2].totalMessages >= 3
Torn(h) == prom[h].st = "pending" /\ client[h].destroyed
Failures == {"timeout", "connect_failed", "auth_failed"}

\* C11 (SpecSettle): when a client has been destroyed while its initialization
\* is pending, the initialization promise eventually is rejected, and every
\* initializeClient call that awaits it has then returned a failure result.
C11_TornDownSettles ==
    \A h \in Handles :
        Torn(h) ~> (/\ Rejected(h)
                    /\ \A i \in Callers :
                          call[i].p = h => call[i].pc = "done" /\ call[i].res \in Failures)

\* C11 witness: disconnectClient has destroyed the registered client and has
\* returned, the initialization of that client is still pending and an
\* initializeClient call is awaiting it.
C11_Witness ==
    \E h \in Handles : \E i \in Callers :
        /\ Torn(h)
        /\ disc.pc = "done" /\ disc.had /\ del.pc = "idle"
        /\ clients = NoHandle
        /\ call[i].pc = "await" /\ call[i].p = h

\* C12 (SpecSettle): in the step in which deleteSession answers after the
\* disconnect step has completed, it reports success, also when the SELECT or
\* the DELETE of WhatsAppSession.delete failed.
C12_DeleteFailureIgnored ==
    [][(del.pc \in {"sel", "del"} /\ del'.pc = "done") => del'.res = "success"]_vars

\* C17 (SpecHang): a disconnectClient call that has started eventually returns,
\* and a deleteSession request that has started eventually is answered, also
\* when client.destroy() or a durable write never settles.
C17_AlwaysReturns ==
    /\ (disc.pc \in {"destroy", "upd", "sel"}) ~> (disc.pc = "done")
    /\ (del.pc \in {"disconnect", "sel", "del"}) ~> (del.pc = "done")
Checking(i) == call[i].kind = "check"
\* C13 (SpecLife): when the initialization a checkExistingSession call ran or
\* joined has failed (failure result, rejection or timeout), the call returns
\* hasSession:true, isActive:false, connected:false and on return the record is
\* inactive; when no record exists the call reports no session and constructs,
\* registers and destroys no client.
C13_CheckRepairs ==
    /\ [][\A i \in Callers :
            (Checking(i) /\ call[i].pc \in {"chkUpd", "chkSel"} /\ call'[i].pc = "done")
              => call'[i].res = "init_failed" /\ ~session'.active]_vars
    /\ [][\A i \in Callers :
            (call[i].pc = "chkFind" /\ call'[i].pc = "done" /\ ~session.exists
                /\ faults' = faults)
              => /\ call'[i].res = "no_session"
                 /\ UNCHANGED <<created, client, clients, initializationPromises>>]_vars

\* C14 (SpecLife): when the registered client is ready, has seen no
\* 'disconnected' and no teardown, and its background persistence has ended with
\* every write successful, a session record exists and is active.
C14_ActiveAfterReady ==
    \A h \in Handles :
        (/\ clients = h /\ client[h].lib = "ready" /\ ~client[h].destroyed
         /\ hdl[h].bg = "done"
         /\ \A k \in 1..3 : hdl[h].op[k] = "ok")
            => session.exists /\ session.active

\* C15 (SpecLife): a pairing artifact is cached only while a client is
\* registered that is live and has not reached ready.
C15_NoStaleArtifact ==
    qrCodes => (clients # NoHandle /\ Live(clients) /\ client[clients].lib # "ready")

\* C19 (SpecLife): when the 'disconnected' handler of a client has run to its
\* end, that client is not registered and 'disconnected' has been pushed.
C19_DisconnectedHandled ==
    \A h \in Handles :
        hdl[h].dh = "done" => (clients # h /\ "disconnected" \in pushed[h])

\* C20 (SpecLife): when a client has emitted 'auth_failure', its handler has run
\* to its end and the initializeClient call that created it has returned, the
\* call has returned a failure, the record is not active, and the client is
\* destroyed and not registered.
C20_AuthFailureTerminal ==
    \A h \in Handles : \A i \in Callers :
        (/\ call[i].p = h /\ call[i].own /\ call[i].kind = "init" /\ call[i].pc = "done"
         /\ client[h].lib = "failed" /\ hdl[h].af = "done")
            => /\ call[i].res \in Failures
               /\ ~session.active
               /\ client[h].destroyed
               /\ clients # h
Ready(h) == client[h].lib = "ready" /\ ~client[h].destroyed
FetchCalled == ingest'.run = ingest.run + 1

\* C16 (SpecGuard): a fetchAndSaveMessages call made while no client is
\* registered, or while the registered client is not ready (it has not reached
\* ready, has been disconnected or has been destroyed), throws 'not connected' at
\* once and writes nothing.
C16_GuardedFetch ==
    [][(FetchCalled /\ (clients = NoHandle \/ ~Ready(clients)))
          => (ingest'.pc = "thrown" /\ UNCHANGED <<messages, chats>>)]_vars

\* C18 (SpecIngest): no fetchAndSaveMessages call ends by throwing to its caller.
C18_NoThrow == ingest.pc # "thrown"

\* C21 (SpecLife): when the 'qr' handler of a client has run to its end without
\* an error (the rendering and WhatsAppSession.create both returned), a pairing
\* artifact is cached, a 'qr' event has been pushed, and a session record exists
\* that is not active, whatever the record was before.
C21_PairingStored ==
    [][\A h \in Handles :
          (hdl[h].qr = "create" /\ hdl'[h].qr = "none" /\ faults' = faults)
            => /\ qrCodes'
               /\ "qr" \in pushed'[h]
               /\ session'.exists /\ ~session'.active]_vars

\* C22 (SpecLife): the background phase after ready issues its three writes
\* together; a write that fails leaves the state of the other two writes, the
\* registry and the client's info as they are, and a write that succeeds takes
\* effect on the row whatever became of the other two.
C22_WritesIsolated ==
    /\ [][\A h \in Handles :
            (hdl[h].bg = "scheduled" /\ hdl'[h].bg = "running")
              => \A k \in 1..3 : hdl'[h].op[k] = "upd"]_vars
    /\ [][\A h \in Handles : \A k \in 1..3 :
            (hdl[h].op[k] = "upd" /\ hdl'[h].op[k] = "err")
              => /\ \A j \in 1..3 : j # k => hdl'[h].op[j] = hdl[h].op[j]
                 /\ UNCHANGED <<clients, client>>]_vars
    /\ [][\A h \in Handles : \A k \in 1..3 :
            (hdl[h].op[k] = "upd" /\ hdl'[h].op[k] = "ok")
              => session' = BgRow(k, session)]_vars

\* C22 witness: on a row created by the 'qr' handler the session data write has
\* failed while the other two writes have marked the row active and recorded the
\* phone number, and the client is still registered and ready.
C22_Witness ==
    \E h \in Handles :
        /\ hdl[h].op = <<"err", "ok", "ok">>
        /\ session.exists /\ ~session.data /\ session.active /\ session.phone
        /\ clients = h /\ isClientReady

\* C23 (SpecRace): when an initializeClient call returns a failure because
\* client.initialize() rejected or the timer fired, the client that call
\* constructed has been destroyed and no client is registered.
C23_FailedInitTornDown ==
    [][\A i \in Callers :
          (/\ call[i].pc = "await" /\ call[i].own /\ call[i].kind = "init"
           /\ call'[i].pc = "done" /\ call'[i].res \in {"timeout", "connect_failed"})
            => /\ client'[call[i].p].destroyed
               /\ clients' = NoHandle]_vars

\* an initializeClient run (called directly or by checkExistingSession) that
\* started an initialization and has not returned
Initializing(i) == call[i].pc = "await" /\ call[i].own

\* C24 (SpecRace): the in-flight registry holds an entry only while a call that
\* started an initialization has not returned, so with every call returned it
\* is empty; and a call made when every earlier call has returned awaits no
\* initialization but its own.
C24_NoStaleEntry ==
    /\ [](initializationPromises # NoHandle => \E i \in Callers : Initializing(i))
    /\ [][\A i \in Callers :
            (/\ call[i].pc \in {"idle", "chkFind"} /\ call'[i].pc = "await"
             /\ \A j \in Callers : j # i => call[j].pc \in {"idle", "done"})
              => call'[i].own /\ call'[i].p = created']_vars

\* C24 witness: a call that started an initialization has returned a failure, a
\* later call has started a second initialization and returned too, and the
\* registry is empty.
C24_Witness ==
    /\ initializationPromises = NoHandle
    /\ created = 2
    /\ \A i \in 1..2 : call[i].pc = "done" /\ call[i].own /\ call[i].kind = "init"
    /\ call[1].res = "timeout"

Notified == msg.sent
InSave == msg.pc \in {"chatCreate", "msgCreate", "updLast"}

\* C25 (SpecNotify): the message of a 'message' event is handed to saveMessage
\* before anything else is done with it, a notification is pushed only for a
\* message that has been handed to saveMessage and is not from the session
\* owner, and the handler of a message from the session owner pushes nothing.
C25_OwnerNeverNotified ==
    /\ [](msg.pc \in {"chatCreate", "msgCreate", "updLast", "getContact", "pic"} => msg.handed)
    /\ [](Notified => msg.handed /\ ~msg.fromMe)
    /\ [][(msg.fromMe /\ msg'.n = msg.n) => pushed' = pushed]_vars
    /\ [][pushed' # pushed /\ msg'.n = msg.n /\ msg.pc # "idle"
            => msg.handed /\ ~msg.fromMe /\ ~InSave]_vars

\* C25 witness: the handler of a message from the session owner has ended with
\* the message stored and no notification pushed.
C25_Witness ==
    /\ msg.pc = "done" /\ msg.fromMe /\ msg.handed /\ ~Notified
    /\ \E r \in messages : r.message_id = EventId(msg.n)
    /\ "new_message_notification" \notin pushed[msg.h]

\* C26 as claimed (SpecNotify): the preview of a notification is the whole body
\* when the body has at most PreviewCap units, and else its first PreviewCap
\* units followed by the ellipsis; it never has more than PreviewCap units plus
\* the ellipsis.
C26_PreviewIsBody ==
    Notified =>
        /\ msg.note.preview = IF Len(msg.body) <= PreviewCap THEN msg.body
                              ELSE SubSeq(msg.body, 1, PreviewCap) \o Ellipsis
        /\ Len(msg.note.preview) <= PreviewCap + Len(Ellipsis)

\* C26 as amended (SpecNotify): the preview is the whole body when the body has
\* between 1 and PreviewCap units, its first PreviewCap units followed by the
\* ellipsis when it has more, and the placeholder '[Media message]' when the
\* body is empty; it never has more than PreviewCap units plus the ellipsis.
C26_PreviewOrPlaceholder ==
    Notified =>
        /\ msg.note.preview =
              IF Len(msg.body) = 0 THEN MediaPlaceholder
              ELSE IF Len(msg.body) <= PreviewCap THEN msg.body
              ELSE SubSeq(msg.body, 1, PreviewCap) \o Ellipsis
        /\ Len(msg.note.preview) <= PreviewCap + Len(Ellipsis)

\* C26 witness: the notification of a body of PreviewCap + 1 units carries its
\* first PreviewCap units followed by the ellipsis.
C26_Witness ==
    /\ Notified
    /\ Len(msg.body) = PreviewCap + 1
    /\ Len(msg.note.preview) = PreviewCap + 3
    /\ msg.note.preview[PreviewCap] = PreviewCap
    /\ msg.note.preview[PreviewCap + 1] = 0

\* C27 (SpecNotify): the handler of a message that is not from the session
\* owner, once it asks for the sender's contact or profile picture, ends with a
\* notification pushed, whether or not these are obtained.
C27_EnrichmentBestEffort ==
    [][(msg.pc \in {"getContact", "pic"} /\ msg'.pc = "done")
          => (msg'.sent /\ "new_message_notification" \in pushed'[msg.h])]_vars

RECURSIVE SumCounts(_)
\* the sum of messageCount over the entries with status success
SumCounts(rs) ==
    IF rs = <<>> THEN 0
    ELSE (IF Head(rs).status = "success" THEN Head(rs).messageCount ELSE 0)
         + SumCounts(Tail(rs))

Successes(rs) == {c \in 1..Len(rs) : rs[c].status = "success"}

\* C28 (SpecIngest): the result of every fetchAndSaveMessages run that returns
\* has totalChats equal to the number of conversations enumerated, one entry
\* per conversation in enumeration order, totalChatsProcessed equal to the
\* number of entries with status success, and totalMessages equal to the sum
\* of messageCount over those entries.
C28_TotalsAgree ==
    \A n \in 1..Len(runs) :
        runs[n].success =>
            /\ runs[n].totalChats = Len(ext)
            /\ Len(runs[n].chats) = Len(ext)
            /\ \A c \in 1..Len(ext) : runs[n].chats[c].chat = c
            /\ runs[n].totalChatsProcessed = Cardinality(Successes(runs[n].chats))
            /\ runs[n].totalMessages = SumCounts(runs[n].chats)

\* C30 (SpecPause): during a fetchAndSaveMessages run a pause begins exactly
\* when the 5th, 10th, ... conversation in enumeration order has just been
\* processed.
C30_PauseAfterFifth ==
    [][(ingest.pc # "pause" /\ ingest'.pc = "pause")
         <=> (/\ Len(ingest'.results) = Len(ingest.results) + 1
              /\ Len(ingest'.results) % PauseEvery = 0)]_vars

InBulkCreate == ingest.pc \in {"bulk", "fallback"}
BatchOf(b) == SubSeq(ingest.msgs, b, BatchEnd(b, Len(ingest.msgs)))
Stored(id) == \E r \in messages : r.message_id = id
RECURSIVE IsSubSeq(_, _)
\* s can be obtained from t by leaving elements out
IsSubSeq(s, t) ==
    IF s = <<>> THEN TRUE
    ELSE IF t = <<>> THEN FALSE
    ELSE IF Head(s) = Head(t) THEN IsSubSeq(Tail(s), Tail(t))
    ELSE IsSubSeq(s, Tail(t))

\* C29 (SpecIngest): Message.bulkCreate takes the records in consecutive batches
\* of at most BatchSize, the first starting at record 1 and each next one where
\* the one before ended; when the bulk statement of a batch fails every record
\* of the batch is inserted on its own, one after the other; a record whose
\* insert succeeds is stored and returned, one whose insert fails is skipped
\* and the next record follows; the call ends only after the last batch; and
\* what it returns are records it was given, in their order, all of them stored.
C29_BatchFallback ==
    /\ [](InBulkCreate =>
            /\ ingest.b \in 1..Len(ingest.msgs) /\ (ingest.b - 1) % BatchSize = 0
            /\ Len(BatchOf(ingest.b)) \in 1..BatchSize)
    /\ [][(ingest.pc = "fetch" /\ ingest'.pc = "bulk") => ingest'.b = 1]_vars
    /\ [][(InBulkCreate /\ ingest'.pc = "bulk")
            => ingest'.b = BatchEnd(ingest.b, Len(ingest.msgs)) + 1]_vars
    /\ [][(InBulkCreate /\ ingest'.pc = "updLast")
            => BatchEnd(ingest.b, Len(ingest.msgs)) = Len(ingest.msgs)]_vars
    /\ [][(ingest.pc = "bulk" /\ faults' # faults)
            => ingest'.pc = "fallback" /\ ingest'.j = ingest.b]_vars
    /\ [][ingest.pc = "fallback"
            => /\ IF faults' = faults
                  THEN /\ \E r \in messages' : r.message_id = ingest.msgs[ingest.j]
                       /\ ingest'.bulkResults
                            = Append(ingest.bulkResults, ingest.msgs[ingest.j])
                  ELSE ingest'.bulkResults = ingest.bulkResults /\ messages' = messages
               /\ IF ingest.j < BatchEnd(ingest.b, Len(ingest.msgs))
                  THEN ingest'.pc = "fallback" /\ ingest'.j = ingest.j + 1
                  ELSE ingest'.pc \in {"bulk", "updLast"}]_vars
    /\ [](ingest.pc \in {"bulk", "fallback", "updLast"} =>
            /\ IsSubSeq(ingest.bulkResults, ingest.msgs)
            /\ \A k \in 1..Len(ingest.bulkResults) : Stored(ingest.bulkResults[k]))

\* C29 witness: of three records the bulk statement of the first batch failed,
\* record 1 was then inserted on its own and record 2 failed and was skipped,
\* and the second batch with record 3 was stored by its bulk statement.
C29_Witness ==
    /\ ingest.pc = "updLast"
    /\ ingest.msgs = <<1, 2, 3>>
    /\ ingest.bulkResults = <<1, 3>>
    /\ Stored(1) /\ ~Stored(2) /\ Stored(3)

\* C31 (as stated): whenever a handler sets a conversation's last-message time,
\* the value it hands to Chat.updateLastMessageTime is the timestamp of the most
\* recent message in milliseconds, the value formatMessage stores in its row
C31_LastTimeInMillis ==
    [][/\ (ingest.pc = "updLast" /\ lastMessageTime' # lastMessageTime)
            => lastMessageTime'[ingest.i].timestamp
                 = formatMessage(ExtMsg(ingest.msgs[Len(ingest.msgs)])).timestamp
       /\ (msg.pc = "updLast" /\ lastMessageTime' # lastMessageTime)
            => lastMessageTime'[EventChat].timestamp
                 = formatMessage(EventMsg).timestamp]_vars

\* C32: the row Message.create stores for an incoming message carries the
\* event's timestamp times 1000 when it is a number below 1e12, the timestamp
\* itself when it is a number at or above 1e12, and the current time when it is
\* not a number
C32_TimestampNormalized ==
    [][msg.pc = "msgCreate"
         => \A r \in messages' \ messages :
               r.timestamp = IF ~msg.num THEN now
                             ELSE IF msg.ts < TsThreshold THEN msg.ts * 1000
                             ELSE msg.ts]_vars

\* both sides of the threshold have been stored: an event one second below 1e12
\* and an event at 1e12
C32_Witness ==
    /\ \E r \in messages : r.timestamp = (TsThreshold - 1) * 1000
    /\ \E r \in messages : r.timestamp = TsThreshold

\* C33 (as stated): the result of getClientStatus has connected equal to
\* isClientReady at the return, also when the durable read failed, and when the
\* read succeeded hasSession, isActive and phoneNumber are those of the row
C33_StatusMerges ==
    [][(stat.pc = "find" /\ stat'.pc = "done")
         => /\ stat'.res.connected = isClientReady'
            /\ stat'.read => /\ stat'.res.hasSession = session.exists
                             /\ stat'.res.isActive = (session.exists /\ session.active)
                             /\ stat'.res.phoneNumber = (session.exists /\ session.phone)]_vars

\* a step of the failure cleanup of the initialization that created client h, or
\* of the 'disconnected' handler of client h
CleanupOf(h) ==
    \/ prom[h].st = "pending" /\ prom'[h].st = "cleanup"
    \/ prom[h].st = "pending" /\ Rejected(h)'
    \/ prom[h].st = "cleanup" /\ prom'[h].st = "settled"
    \/ hdl[h].dh # hdl'[h].dh

\* client g is neither unregistered nor torn down by the step
Kept(g) ==
    /\ clients = g => clients' = g
    /\ client'[g].destroyed = client[g].destroyed

\* C34 (as stated): the failure cleanup of an initialization and the
\* 'disconnected' handler of a client never unregister or tear down a client that
\* a later initializeClient call created
C34_CleanupOwnHandle ==
    [][\A h \in Handles, g \in Handles :
          (h < g /\ g <= created /\ CleanupOf(h)) => Kept(g)]_vars

\* C35 (as stated): at any time at most one client of the user has been created
\* and not torn down, and that client is the registered one
C35_OneLiveRegistered ==
    \A h \in Handles : (h <= created /\ ~client[h].destroyed) => clients = h

\* no call, event handler or background persistence task of the user is pending
Quiescent ==
    /\ \A i \in Callers : call[i].pc \in {"idle", "done"}
    /\ disc.pc \in {"idle", "done"}
    /\ \A h \in Handles :
          /\ ~Running(h)
          /\ hdl[h].qr \notin {"render", "create"}
          /\ hdl[h].af # "upd"
          /\ hdl[h].dh \notin {"upd", "sel"}
          /\ hdl[h].bg \notin {"scheduled", "running"}
          /\ \A k \in 1..3 : hdl[h].op[k] # "upd"

\* C36 (as stated): whenever nothing is pending for the user, a session row
\* that is active implies that a client that has reached ready is registered
C36_ActiveMeansReady ==
    (Quiescent /\ session.active) => isClientReady

\* C37 (as stated): when disconnectClient returns a failure result for a call
\* that found a client registered, a client is still registered
C37_DisconnectAllOrNothing ==
    [][(disc.pc # "done" /\ disc'.pc = "done" /\ disc'.res = "error" /\ disc.had)
         => clients' # NoHandle]_vars

Saved(h) == pushed[h] \cap {"session_saved_true", "session_saved_false"}

\* C38: for a client whose Ready handler ran, a session_saved notification is
\* pushed only after the ready push and only when none was pushed before;
\* success:true is pushed when the three writes have all settled, failed or not,
\* success:false only when the timer fires with a write still unsettled; and the
\* background task ends with exactly one session_saved pushed
C38_OneSessionSaved ==
    [][\A h \in Handles :
          /\ "session_saved_true" \in pushed'[h] \ pushed[h]
                => "ready" \in pushed[h] /\ Saved(h) = {} /\ BgSettled(h)
          /\ "session_saved_false" \in pushed'[h] \ pushed[h]
                => "ready" \in pushed[h] /\ Saved(h) = {} /\ ~BgSettled(h)
          /\ (hdl[h].bg = "running" /\ hdl'[h].bg = "done")
                => Cardinality(Saved(h)') = 1]_vars

\* a background task whose writes all settled, one of them failing, reported
\* success:true
C38_Witness ==
    \E h \in Handles :
        /\ hdl[h].bg = "done"
        /\ \E k \in 1..3 : hdl[h].op[k] = "err"
        /\ BgSettled(h)
        /\ Saved(h) = {"session_saved_true"}

\* C39 (as stated): an event emitted to the room of user U is received only by
\* sockets whose token authenticated as U, whatever join_room and leave_room
\* requests the sockets of other users send
C39_RoomIsolation ==
    \A s \in Sockets : \A e \in sockets[s].received : e.to = sockets[s].userId

\* what C40 asks of every state of a connectWithRetry call
RetryInBounds ==
    /\ retry.attempts <= retry.retries
    /\ retry.succeeded <= 1
    /\ retry.succeeded = 1 => retry.pc = "done"
    /\ retry.acquired - retry.released = (IF retry.held THEN 1 ELSE 0)
    /\ retry.pc = "done" =>
          /\ retry.released = retry.acquired
          /\ retry.res \in {"true", "false"}
          /\ retry.res = "true" <=> retry.succeeded = 1
          /\ retry.res = "false" => retry.attempts = retry.retries

\* C40: a connectWithRetry(retries) call makes at most retries attempts, returns
\* true at its first successful attempt, returns false once retries attempts have
\* failed, has released every connection it acquired exactly once when it
\* returns and never holds two, and always returns
C40_RetryBounded ==
    /\ []RetryInBounds
    /\ (retry.pc # "idle") ~> (retry.pc = "done")

\* a call that returned true at its third attempt, after an attempt that failed
\* with a connection acquired
C40_Witness ==
    /\ retry.pc = "done"
    /\ retry.res = "true"
    /\ retry.attempts = 3
    /\ retry.acquired >= 2
====
